---- MODULE Spec2Model ----
(***************************************************************************)
(* Statement import of FinanceOS-Bot: the CSV pipeline (ai/csv_parser.py), *)
(* the PDF pipeline (ai/pdf_parser.py), the categorizer and the category   *)
(* resolver they share.                                                    *)
(*                                                                         *)
(* A Python str is modelled as the sequence of its Unicode code points, so *)
(* that lower(), strip(), "kw in text", split() and the regular            *)
(* expressions are computed on the text itself.  The comment after a tuple *)
(* gives the text it spells.                                               *)
(***************************************************************************)
EXTENDS Integers, Sequences, FiniteSets, TLC

VARIABLES
  pc,          \* where the call in progress stands
  doc,         \* what was uploaded: "csv", "pdf", or "none" for a function call
  header,      \* csv: reader.fieldnames
  page1,       \* pdf: the text of page 1, NoPage for a file without pages
  categories,  \* the user's catalog, as handed to the parser
  bank,        \* the bank detected
  rows,        \* the rows emitted so far
  skipped,     \* the skip counter
  consumed,    \* csv: data rows read; pdf: pages read
  raw_rows,    \* pdf: the rows extracted from the tables so far
  error,       \* the exception that left the call, "none" without one
  call,        \* the single function call of the function-level specification
  this_page,   \* pdf: the page of the loop's last turn
  fsm,         \* import: the user's row of table fsm_states
  callbacks,   \* import: where each callback query of the user stands
  inserted     \* import: the calls of bulk_insert_transactions made

\* what the caller hands over; no step changes it
document == <<doc, header, page1, categories>>

\* what the confirmation step of an import holds; no parser step changes it
confirmation == <<fsm, callbacks, inserted>>

vars == <<pc, document, this_page, confirmation, bank, rows, skipped, consumed, raw_rows, error, call>>

\* ------------------------------------------------------------------ str

\* Python None where a str (a cell, a dict key) is expected.
None == <<-1>>

Min(S) == CHOOSE x \in S : \A y \in S : x <= y

Max(S) == CHOOSE x \in S : \A y \in S : y <= x

\* str.lower() on one code point: Latin A-Z, Cyrillic U+0410-042F, U+0400-040F
\* and U+0490; every other code point drawn by this model has no lower case.
lower_cp(c) ==
  IF c \in 65..90 THEN c + 32
  ELSE IF c \in 1040..1071 THEN c + 32
  ELSE IF c \in 1024..1039 THEN c + 80
  ELSE IF c = 1168 THEN 1169
  ELSE c

upper_cp(c) ==
  IF c \in 97..122 THEN c - 32
  ELSE IF c \in 1072..1103 THEN c - 32
  ELSE IF c \in 1104..1119 THEN c - 80
  ELSE IF c = 1169 THEN 1168
  ELSE c

lower(s) == [i \in 1..Len(s) |-> lower_cp(s[i])]

upper(s) == [i \in 1..Len(s) |-> upper_cp(s[i])]

\* str.isspace() on one code point: the ASCII white space, U+0085 and U+00A0.
isspace(c) == c \in {9, 10, 11, 12, 13, 28, 29, 30, 31, 32, 133, 160}

isdigit(c) == c \in 48..57

RECURSIVE lstrip(_)
lstrip(s) == IF s # <<>> /\ isspace(s[1]) THEN lstrip(Tail(s)) ELSE s

RECURSIVE rstrip(_)
rstrip(s) ==
  IF s # <<>> /\ isspace(s[Len(s)]) THEN rstrip(SubSeq(s, 1, Len(s) - 1)) ELSE s

strip(s) == rstrip(lstrip(s))

\* "kw in s"
IsIn(kw, s) ==
  kw = <<>> \/ \E i \in 1..(Len(s) - Len(kw) + 1) :
                 s[i] = kw[1] /\ SubSeq(s, i, i + Len(kw) - 1) = kw

startswith(s, p) == Len(p) <= Len(s) /\ \A j \in 1..Len(p) : s[j] = p[j]

count(s, c) == Cardinality({i \in 1..Len(s) : s[i] = c})

\* s.replace(chr(c), "")
remove(s, c) == SelectSeq(s, LAMBDA x : x # c)

\* s.replace(chr(c), chr(d))
replace(s, c, d) == [i \in 1..Len(s) |-> IF s[i] = c THEN d ELSE s[i]]

\* set(s.split()): the maximal runs of non-space code points
RECURSIVE split(_, _)
split(s, cur) ==
  IF s = <<>> THEN (IF cur = <<>> THEN {} ELSE {cur})
  ELSE IF isspace(s[1])
       THEN (IF cur = <<>> THEN {} ELSE {cur}) \cup split(Tail(s), <<>>)
       ELSE split(Tail(s), Append(cur, s[1]))

\* len(s.split())
RECURSIVE words(_, _)
words(s, inword) ==
  IF s = <<>> THEN 0
  ELSE IF isspace(s[1]) THEN words(Tail(s), FALSE)
  ELSE (IF inword THEN 0 ELSE 1) + words(Tail(s), TRUE)

\* s[:n]
prefix(s, n) == IF Len(s) <= n THEN s ELSE SubSeq(s, 1, n)

\* ------------------------------------------------------------------ the rule tables

MCC_TO_CATEGORY ==
     (<<53,52,49,49>> (* 5411 *) :> [cat |-> <<1057,1091,1087,1077,1088,1084,1072,1088,1082,1077,1090,1080>> (* Супермаркети *), type |-> "expense"])
  @@ (<<53,52,49,50>> (* 5412 *) :> [cat |-> <<1057,1091,1087,1077,1088,1084,1072,1088,1082,1077,1090,1080>> (* Супермаркети *), type |-> "expense"])
  @@ (<<53,52,57,57>> (* 5499 *) :> [cat |-> <<1057,1091,1087,1077,1088,1084,1072,1088,1082,1077,1090,1080>> (* Супермаркети *), type |-> "expense"])
  @@ (<<53,52,52,49>> (* 5441 *) :> [cat |-> <<1050,1072,1074,1072,47,1057,1085,1077,1082,1080>> (* Кава/Снеки *), type |-> "expense"])
  @@ (<<53,56,49,52>> (* 5814 *) :> [cat |-> <<1047,1072,1082,1083,1072,1076,1080>> (* Заклади *), type |-> "expense"])
  @@ (<<53,56,49,50>> (* 5812 *) :> [cat |-> <<1047,1072,1082,1083,1072,1076,1080>> (* Заклади *), type |-> "expense"])
  @@ (<<53,56,49,51>> (* 5813 *) :> [cat |-> <<1047,1072,1082,1083,1072,1076,1080>> (* Заклади *), type |-> "expense"])
  @@ (<<53,57,49,50>> (* 5912 *) :> [cat |-> <<1051,1110,1082,1080,47,1051,1110,1082,1072,1088,1110>> (* Ліки/Лікарі *), type |-> "expense"])
  @@ (<<56,48,49,49>> (* 8011 *) :> [cat |-> <<1051,1110,1082,1080,47,1051,1110,1082,1072,1088,1110>> (* Ліки/Лікарі *), type |-> "expense"])
  @@ (<<56,48,50,49>> (* 8021 *) :> [cat |-> <<1051,1110,1082,1080,47,1051,1110,1082,1072,1088,1110>> (* Ліки/Лікарі *), type |-> "expense"])
  @@ (<<56,48,57,57>> (* 8099 *) :> [cat |-> <<1051,1110,1082,1080,47,1051,1110,1082,1072,1088,1110>> (* Ліки/Лікарі *), type |-> "expense"])
  @@ (<<56,48,54,50>> (* 8062 *) :> [cat |-> <<1051,1110,1082,1080,47,1051,1110,1082,1072,1088,1110>> (* Ліки/Лікарі *), type |-> "expense"])
  @@ (<<55,57,50,50>> (* 7922 *) :> [cat |-> <<1055,1086,1076,1110,1111,47,1061,1086,1073,1110>> (* Події/Хобі *), type |-> "expense"])
  @@ (<<55,57,50,57>> (* 7929 *) :> [cat |-> <<1055,1086,1076,1110,1111,47,1061,1086,1073,1110>> (* Події/Хобі *), type |-> "expense"])
  @@ (<<55,57,52,49>> (* 7941 *) :> [cat |-> <<1057,1087,1086,1088,1090,1079,1072,1083>> (* Спортзал *), type |-> "expense"])
  @@ (<<55,57,57,55>> (* 7997 *) :> [cat |-> <<1057,1087,1086,1088,1090,1079,1072,1083>> (* Спортзал *), type |-> "expense"])
  @@ (<<53,54,54,49>> (* 5661 *) :> [cat |-> <<1054,1076,1103,1075,47,1042,1079,1091,1090,1090,1103>> (* Одяг/Взуття *), type |-> "expense"])
  @@ (<<53,54,57,49>> (* 5691 *) :> [cat |-> <<1054,1076,1103,1075,47,1042,1079,1091,1090,1090,1103>> (* Одяг/Взуття *), type |-> "expense"])
  @@ (<<53,54,53,49>> (* 5651 *) :> [cat |-> <<1054,1076,1103,1075,47,1042,1079,1091,1090,1090,1103>> (* Одяг/Взуття *), type |-> "expense"])
  @@ (<<53,57,52,56>> (* 5948 *) :> [cat |-> <<1054,1076,1103,1075,47,1042,1079,1091,1090,1090,1103>> (* Одяг/Взуття *), type |-> "expense"])
  @@ (<<53,55,51,50>> (* 5732 *) :> [cat |-> <<1045,1083,1077,1082,1090,1088,1086,1085,1110,1082,1072>> (* Електроніка *), type |-> "expense"])
  @@ (<<53,55,51,52>> (* 5734 *) :> [cat |-> <<1057,1077,1088,1074,1110,1089,1080,47,1055,1110,1076,1087,1080,1089,1082,1080>> (* Сервіси/Підписки *), type |-> "expense"])
  @@ (<<53,48,52,53>> (* 5045 *) :> [cat |-> <<1045,1083,1077,1082,1090,1088,1086,1085,1110,1082,1072>> (* Електроніка *), type |-> "expense"])
  @@ (<<53,57,57,57>> (* 5999 *) :> [cat |-> <<1058,1086,1074,1072,1088,1080,32,1076,1083,1103,32,1076,1086,1084,1091>> (* Товари для дому *), type |-> "expense"])
  @@ (<<53,50,48,48>> (* 5200 *) :> [cat |-> <<1058,1086,1074,1072,1088,1080,32,1076,1083,1103,32,1076,1086,1084,1091>> (* Товари для дому *), type |-> "expense"])
  @@ (<<53,50,53,49>> (* 5251 *) :> [cat |-> <<1058,1086,1074,1072,1088,1080,32,1076,1083,1103,32,1076,1086,1084,1091>> (* Товари для дому *), type |-> "expense"])
  @@ (<<53,53,49,49>> (* 5511 *) :> [cat |-> <<1040,1074,1090,1086>> (* Авто *), type |-> "expense"])
  @@ (<<53,53,50,49>> (* 5521 *) :> [cat |-> <<1040,1074,1090,1086>> (* Авто *), type |-> "expense"])
  @@ (<<53,53,52,49>> (* 5541 *) :> [cat |-> <<1040,1074,1090,1086>> (* Авто *), type |-> "expense"])
  @@ (<<53,53,52,50>> (* 5542 *) :> [cat |-> <<1040,1074,1090,1086>> (* Авто *), type |-> "expense"])
  @@ (<<55,53,50,51>> (* 7523 *) :> [cat |-> <<1040,1074,1090,1086>> (* Авто *), type |-> "expense"])
  @@ (<<55,53,51,56>> (* 7538 *) :> [cat |-> <<1040,1074,1090,1086>> (* Авто *), type |-> "expense"])
  @@ (<<52,49,49,49>> (* 4111 *) :> [cat |-> <<1058,1072,1082,1089,1110,47,1043,1088,1086,1084,1072,1076,1089,1100,1082,1080,1081>> (* Таксі/Громадський *), type |-> "expense"])
  @@ (<<52,49,50,49>> (* 4121 *) :> [cat |-> <<1058,1072,1082,1089,1110,47,1043,1088,1086,1084,1072,1076,1089,1100,1082,1080,1081>> (* Таксі/Громадський *), type |-> "expense"])
  @@ (<<52,49,51,49>> (* 4131 *) :> [cat |-> <<1058,1072,1082,1089,1110,47,1043,1088,1086,1084,1072,1076,1089,1100,1082,1080,1081>> (* Таксі/Громадський *), type |-> "expense"])
  @@ (<<55,53,49,50>> (* 7512 *) :> [cat |-> <<1058,1072,1082,1089,1110,47,1043,1088,1086,1084,1072,1076,1089,1100,1082,1080,1081>> (* Таксі/Громадський *), type |-> "expense"])
  @@ (<<52,57,48,48>> (* 4900 *) :> [cat |-> <<1054,1088,1077,1085,1076,1072,47,1050,1086,1084,1091,1085,1072,1083,1100,1085,1110>> (* Оренда/Комунальні *), type |-> "expense"])
  @@ (<<52,56,49,52>> (* 4814 *) :> [cat |-> <<1047,1074,39,1103,1079,1086,1082>> (* Зв'язок *), type |-> "expense"])
  @@ (<<52,56,49,50>> (* 4812 *) :> [cat |-> <<1047,1074,39,1103,1079,1086,1082>> (* Зв'язок *), type |-> "expense"])
  @@ (<<56,50,50,48>> (* 8220 *) :> [cat |-> <<1054,1089,1074,1110,1090,1072>> (* Освіта *), type |-> "expense"])
  @@ (<<56,50,57,57>> (* 8299 *) :> [cat |-> <<1054,1089,1074,1110,1090,1072>> (* Освіта *), type |-> "expense"])
  @@ (<<55,50,51,48>> (* 7230 *) :> [cat |-> <<1041,39,1102,1090,1110>> (* Б'юті *), type |-> "expense"])
  @@ (<<55,48,49,49>> (* 7011 *) :> [cat |-> <<1056,1086,1079,1074,1072,1078,1072,1083,1100,1085,1110,32,1087,1110,1076,1087,1080,1089,1082,1080>> (* Розважальні підписки *), type |-> "expense"])
  @@ (<<54,48,49,49>> (* 6011 *) :> [cat |-> <<1055,1077,1088,1077,1082,1072,1079,32,40,1110,1085,1096,1077,41>> (* Переказ (інше) *), type |-> "transfer"])
  @@ (<<54,48,49,50>> (* 6012 *) :> [cat |-> <<1055,1077,1088,1077,1082,1072,1079,32,40,1110,1085,1096,1077,41>> (* Переказ (інше) *), type |-> "transfer"])
  @@ (<<54,48,49,48>> (* 6010 *) :> [cat |-> <<1055,1077,1088,1077,1082,1072,1079,32,40,1110,1085,1096,1077,41>> (* Переказ (інше) *), type |-> "transfer"])
  @@ (<<54,48,53,49>> (* 6051 *) :> [cat |-> <<1054,1073,1084,1110,1085,32,1074,1072,1083,1102,1090>> (* Обмін валют *), type |-> "transfer"])
  @@ (<<54,48,53,48>> (* 6050 *) :> [cat |-> <<1054,1073,1084,1110,1085,32,1074,1072,1083,1102,1090>> (* Обмін валют *), type |-> "transfer"])

KEYWORD_RULES == <<
  [keywords |-> <<
      <<1089,1110,1083,1100,1087,1086>> (* сільпо *),
      <<115,105,108,112,111>> (* silpo *),
      <<97,116,98>> (* atb *),
      <<1072,1090,1073>> (* атб *),
      <<110,111,118,117,115>> (* novus *),
      <<1085,1086,1074,1091,1089>> (* новус *),
      <<109,101,116,114,111,32,99,97,115,104>> (* metro cash *),
      <<97,117,99,104,97,110>> (* auchan *),
      <<1072,1096,1072,1085>> (* ашан *),
      <<102,111,122,122,121>> (* fozzy *),
      <<1092,1086,1079,1079,1110>> (* фоззі *),
      <<1074,1077,1083,1084,1072,1088,1090>> (* велмарт *),
      <<1074,1077,1083,1080,1082,1072,32,1082,1080,1096,1077,1085,1103>> (* велика кишеня *),
      <<98,105,108,108,97>> (* billa *),
      <<1073,1110,1083,1083,1072>> (* білла *),
      <<114,117,107,97,118,121,99,104,107,97>> (* rukavychka *),
      <<114,117,107,97,118,105,99,104,107,97>> (* rukavichka *),
      <<1088,1091,1082,1072,1074,1080,1095,1082,1072>> (* рукавичка *),
      <<117,108,116,114,97,109,97,114,107,101,116>> (* ultramarket *),
      <<1091,1083,1100,1090,1088,1072,1084,1072,1088,1082,1077,1090>> (* ультрамаркет *)
    >>, cat |-> <<1057,1091,1087,1077,1088,1084,1072,1088,1082,1077,1090,1080>> (* Супермаркети *), type |-> "expense"],
  [keywords |-> <<
      <<107,102,99>> (* kfc *),
      <<109,99,100,111,110,97,108,100>> (* mcdonald *),
      <<1084,1072,1082,1076,1086,1085,1072,1083,1100,1076,1089>> (* макдональдс *),
      <<98,117,114,103,101,114,32,107,105,110,103>> (* burger king *),
      <<112,105,122,122,97,32,104,117,116>> (* pizza hut *),
      <<112,105,122,122,97>> (* pizza *),
      <<1087,1110,1094,1072>> (* піца *),
      <<1089,1091,1096,1110>> (* суші *),
      <<115,117,115,104,105>> (* sushi *),
      <<119,111,107>> (* wok *),
      <<1088,1077,1089,1090,1086,1088,1072,1085>> (* ресторан *),
      <<1082,1072,1092,1077>> (* кафе *),
      <<99,97,102,101>> (* cafe *),
      <<1087,1080,1074,1086>> (* пиво *),
      <<98,101,101,114>> (* beer *),
      <<112,117,98>> (* pub *),
      <<1087,1072,1073>> (* паб *),
      <<1096,1072,1091,1088,1084,1072>> (* шаурма *),
      <<1093,1110,1085,1082,1072,1083,1110>> (* хінкалі *),
      <<112,117,122,97,116,97,32,104,97,116,97>> (* puzata hata *),
      <<1087,1091,1079,1072,1090,1072,32,1093,1072,1090,1072>> (* пузата хата *),
      <<99,104,101,108,101,110,116,97,110,111>> (* chelentano *),
      <<99,101,108,101,110,116,97,110,111>> (* celentano *),
      <<118,97,112,105,97,110,111>> (* vapiano *),
      <<109,97,102,105,97>> (* mafia *),
      <<1103,1082,1080,1090,1086,1088,1080,1103>> (* якитория *),
      <<1103,1082,1110,1090,1086,1088,1110,1103>> (* якіторія *)
    >>, cat |-> <<1047,1072,1082,1083,1072,1076,1080>> (* Заклади *), type |-> "expense"],
  [keywords |-> <<
      <<115,116,97,114,98,117,99,107,115>> (* starbucks *),
      <<99,111,102,102,101,101>> (* coffee *),
      <<1082,1072,1074,1072>> (* кава *),
      <<108,97,118,97,122,122,97>> (* lavazza *),
      <<1089,1085,1077,1082>> (* снек *),
      <<115,110,97,99,107>> (* snack *),
      <<1095,1072,1081>> (* чай *),
      <<98,97,107,101,114,121>> (* bakery *),
      <<1087,1077,1082,1072,1088,1085,1103>> (* пекарня *),
      <<99,114,111,105,115,115,97,110,116>> (* croissant *),
      <<1082,1088,1091,1072,1089,1072,1085>> (* круасан *),
      <<115,109,111,111,116,104,105,101>> (* smoothie *)
    >>, cat |-> <<1050,1072,1074,1072,47,1057,1085,1077,1082,1080>> (* Кава/Снеки *), type |-> "expense"],
  [keywords |-> <<
      <<98,111,108,116,32,102,111,111,100>> (* bolt food *),
      <<98,111,108,116>> (* bolt *),
      <<117,98,101,114>> (* uber *),
      <<117,107,108,111,110>> (* uklon *),
      <<1091,1082,1083,1086,1085>> (* уклон *),
      <<116,97,120,105>> (* taxi *),
      <<1090,1072,1082,1089,1110>> (* таксі *),
      <<1084,1072,1088,1096,1088,1091,1090,1082,1072>> (* маршрутка *),
      <<1084,1077,1090,1088,1086>> (* метро *),
      <<117,107,114,122,97,108,105,122,110,121,116,115,105,97>> (* ukrzaliznytsia *),
      <<1091,1082,1088,1079,1072,1083,1110,1079,1085,1080,1094,1103>> (* укрзалізниця *),
      <<114,121,97,110,97,105,114>> (* ryanair *),
      <<119,105,122,122>> (* wizz *),
      <<119,105,122,122,97,105,114>> (* wizzair *),
      <<1090,1091,1088,1072,1075,1077,1085,1090,1089,1090,1074,1086>> (* турагентство *),
      <<98,111,111,107,105,110,103,46,99,111,109>> (* booking.com *),
      <<97,105,114,98,110,98>> (* airbnb *)
    >>, cat |-> <<1058,1072,1082,1089,1110,47,1043,1088,1086,1084,1072,1076,1089,1100,1082,1080,1081>> (* Таксі/Громадський *), type |-> "expense"],
  [keywords |-> <<
      <<115,104,101,108,108>> (* shell *),
      <<119,111,103>> (* wog *),
      <<111,107,107,111>> (* okko *),
      <<115,111,99,97,114>> (* socar *),
      <<1072,1079,1089>> (* азс *),
      <<98,114,115,109>> (* brsm *),
      <<1091,1082,1088,1085,1072,1092,1090,1072>> (* укрнафта *),
      <<1073,1077,1085,1079,1080,1085>> (* бензин *),
      <<1072,1074,1090,1086,1089,1077,1088,1074,1110,1089>> (* автосервіс *),
      <<1096,1080,1085,1086,1084,1086,1085,1090,1072,1078>> (* шиномонтаж *),
      <<1084,1080,1081,1082,1072,32,1072,1074,1090,1086>> (* мийка авто *),
      <<1072,1074,1090,1086,1084,1080,1081,1082,1072>> (* автомийка *),
      <<1087,1072,1088,1082,1086,1074,1082>> (* парковк *),
      <<114,101,110,97,117,108,116>> (* renault *),
      <<116,111,121,111,116,97>> (* toyota *),
      <<118,111,108,107,115,119,97,103,101,110>> (* volkswagen *)
    >>, cat |-> <<1040,1074,1090,1086>> (* Авто *), type |-> "expense"],
  [keywords |-> <<
      <<1082,1080,1111,1074,1089,1090,1072,1088>> (* київстар *),
      <<107,121,105,118,115,116,97,114>> (* kyivstar *),
      <<118,111,100,97,102,111,110,101>> (* vodafone *),
      <<108,105,102,101>> (* life *),
      <<1083,1072,1081,1092>> (* лайф *),
      <<1110,1085,1090,1077,1088,1085,1077,1090>> (* інтернет *),
      <<105,110,116,101,114,110,101,116>> (* internet *),
      <<108,105,102,101,99,101,108,108>> (* lifecell *),
      <<1091,1082,1088,1090,1077,1083,1077,1082,1086,1084>> (* укртелеком *),
      <<109,111,98,105,108,101>> (* mobile *),
      <<115,105,109>> (* sim *),
      <<1090,97,114,105,1092>> (* тariф *)
    >>, cat |-> <<1047,1074,39,1103,1079,1086,1082>> (* Зв'язок *), type |-> "expense"],
  [keywords |-> <<
      <<1082,1086,1084,1091,1085,1072,1083,1100,1085,1110>> (* комунальні *),
      <<1082,1086,1084,1091,1085,1072,1083,1100,1085,1072>> (* комунальна *),
      <<1074,1086,1076,1086,1082,1072,1085,1072,1083>> (* водоканал *),
      <<1075,1072,1079>> (* газ *),
      <<1075,1072,1079,1086,1087,1086,1089,1090,1072,1095,1072,1085,1085,1103>> (* газопостачання *),
      <<1090,1077,1087,1083,1086,1077,1085,1077,1088,1075,1086>> (* теплоенерго *),
      <<1077,1083,1077,1082,1090,1088,1086>> (* електро *),
      <<1082,1074,1072,1088,1090,1087,1083,1072,1090,1072>> (* квартплата *),
      <<1086,1088,1077,1085,1076,1072>> (* оренда *),
      <<1072,1088,1077,1085,1076,1072>> (* аренда *),
      <<1085,1077,1088,1091,1093,1086,1084,1110,1089,1090,1100>> (* нерухомість *),
      <<1046,1050,1055>> (* ЖКП *),
      <<1046,1050,1043>> (* ЖКГ *)
    >>, cat |-> <<1054,1088,1077,1085,1076,1072,47,1050,1086,1084,1091,1085,1072,1083,1100,1085,1110>> (* Оренда/Комунальні *), type |-> "expense"],
  [keywords |-> <<
      <<110,101,116,102,108,105,120>> (* netflix *),
      <<115,112,111,116,105,102,121>> (* spotify *),
      <<97,112,112,108,101>> (* apple *),
      <<103,111,111,103,108,101,32,112,108,97,121>> (* google play *),
      <<115,116,101,97,109>> (* steam *),
      <<97,100,111,98,101>> (* adobe *),
      <<109,105,99,114,111,115,111,102,116>> (* microsoft *),
      <<115,117,98,115,99,114,105>> (* subscri *),
      <<1087,1110,1076,1087,1080,1089,1082,1072>> (* підписка *),
      <<99,104,97,116,103,112,116>> (* chatgpt *),
      <<111,112,101,110,97,105>> (* openai *),
      <<99,108,97,117,100,101>> (* claude *),
      <<97,110,116,104,114,111,112,105,99>> (* anthropic *),
      <<109,105,100,106,111,117,114,110,101,121>> (* midjourney *),
      <<102,105,103,109,97>> (* figma *),
      <<99,97,110,118,97>> (* canva *),
      <<110,111,116,105,111,110>> (* notion *),
      <<112,97,116,114,101,111,110>> (* patreon *)
    >>, cat |-> <<1057,1077,1088,1074,1110,1089,1080,47,1055,1110,1076,1087,1080,1089,1082,1080>> (* Сервіси/Підписки *), type |-> "expense"],
  [keywords |-> <<
      <<114,111,122,101,116,107,97>> (* rozetka *),
      <<1088,1086,1079,1077,1090,1082,1072>> (* розетка *),
      <<102,111,120,116,114,111,116>> (* foxtrot *),
      <<1092,1086,1082,1089,1090,1088,1086,1090>> (* фокстрот *),
      <<99,111,109,102,121>> (* comfy *),
      <<101,108,100,111,114,97,100,111>> (* eldorado *),
      <<1077,1083,1100,1076,1086,1088,1072,1076,1086>> (* ельдорадо *),
      <<109,111,121,111>> (* moyo *),
      <<105,112,104,111,110,101>> (* iphone *),
      <<115,97,109,115,117,110,103>> (* samsung *),
      <<108,97,112,116,111,112>> (* laptop *),
      <<108,101,110,111,118,111>> (* lenovo *),
      <<100,101,108,108>> (* dell *),
      <<97,112,112,108,101,32,115,116,111,114,101>> (* apple store *),
      <<120,105,97,111,109,105>> (* xiaomi *)
    >>, cat |-> <<1045,1083,1077,1082,1090,1088,1086,1085,1110,1082,1072>> (* Електроніка *), type |-> "expense"],
  [keywords |-> <<
      <<1079,1072,1088,1087,1083,1072,1090,1072>> (* зарплата *),
      <<1079,1087>> (* зп *),
      <<115,97,108,97,114,121>> (* salary *),
      <<1072,1074,1072,1085,1089>> (* аванс *),
      <<1085,1072,1088,1072,1093,1091,1074,1072,1085,1085,1103,32,1079,1087>> (* нарахування зп *),
      <<1074,1080,1087,1083,1072,1090,1072,32,1079,1087>> (* виплата зп *),
      <<1079,1072,1088,1086,1073,1110,1090,1085,1072,32,1087,1083,1072,1090,1072>> (* заробітна плата *),
      <<1079,1072,1088,1086,1073,1110,1090,1085,1103,32,1087,1083,1072,1090,1072>> (* заробітня плата *)
    >>, cat |-> <<1047,1072,1088,1087,1083,1072,1090,1072>> (* Зарплата *), type |-> "income"],
  [keywords |-> <<
      <<1092,1088,1110,1083,1072,1085,1089>> (* фріланс *),
      <<102,114,101,101,108,97,110,99,101>> (* freelance *),
      <<117,112,119,111,114,107>> (* upwork *),
      <<116,111,112,116,97,108>> (* toptal *),
      <<1086,1087,1083,1072,1090,1072,32,1079,1072,32,1087,1088,1086,1077,1082,1090>> (* оплата за проект *),
      <<1079,1072,32,1087,1086,1089,1083,1091,1075,1080>> (* за послуги *),
      <<1079,1072,32,1088,1086,1073,1086,1090,1091>> (* за роботу *),
      <<1074,1080,1085,1072,1075,1086,1088,1086,1076,1072>> (* винагорода *)
    >>, cat |-> <<1060,1088,1110,1083,1072,1085,1089>> (* Фріланс *), type |-> "income"],
  [keywords |-> <<
      <<1085,1072,1076,1093,1086,1076,1078,1077,1085,1085,1103>> (* надходження *),
      <<1085,1072,1088,1072,1093,1091,1074,1072,1085,1085,1103>> (* нарахування *),
      <<1079,1072,1088,1072,1093,1091,1074,1072,1085,1085,1103>> (* зарахування *),
      <<1074,1110,1076,32,1092,1110,1079,1080,1095,1085,1086,1111>> (* від фізичної *),
      <<1074,1110,1076,32,1092,1086,1087>> (* від фоп *),
      <<1087,1086,1074,1077,1088,1085,1077,1085,1085,1103,32,1082,1086,1096,1090,1110,1074>> (* повернення коштів *),
      <<1074,1110,1076,1096,1082,1086,1076,1091,1074,1072,1085,1085,1103>> (* відшкодування *)
    >>, cat |-> <<1030,1085,1096,1080,1081,32,1076,1086,1093,1110,1076>> (* Інший дохід *), type |-> "income"],
  [keywords |-> <<
      <<1087,1086,1076,1072,1088,1091,1085,1086,1082>> (* подарунок *),
      <<103,105,102,116>> (* gift *),
      <<1074,1110,1076,32,1084,1072,1084,1080>> (* від мами *),
      <<1074,1110,1076,32,1090,1072,1090,1072>> (* від тата *),
      <<1074,1110,1076,32,1073,1072,1090,1100,1082,1110,1074>> (* від батьків *)
    >>, cat |-> <<1055,1086,1076,1072,1088,1091,1085,1086,1082>> (* Подарунок *), type |-> "income"],
  [keywords |-> <<
      <<1087,1086,1087,1086,1074,1085,1077,1085,1085,1103,32,1079,32,1082,1072,1088,1090,1082,1080>> (* поповнення з картки *),
      <<99,97,114,100,50,99,97,114,100>> (* card2card *),
      <<112,50,112>> (* p2p *),
      <<1087,1077,1088,1077,1082,1072,1079,32,1074,1110,1076>> (* переказ від *),
      <<1074,1110,1076,58>> (* від: *)
    >>, cat |-> <<1055,1077,1088,1077,1082,1072,1079,32,40,1110,1085,1096,1077,41>> (* Переказ (інше) *), type |-> "transfer"],
  [keywords |-> <<
      <<1074,1110,1076,1082,1083,1072,1076,1072,1085,1085,1103>> (* відкладання *),
      <<1085,1072,32,1073,1072,1085,1082,1091>> (* на банку *),
      <<1085,1072,1082,1086,1087,1080,1095,1077,1085,1085,1103>> (* накопичення *),
      <<1079,1072,1086,1097,1072,1076,1078,1077,1085,1085,1103>> (* заощадження *),
      <<1076,1086,32,1073,1072,1085,1082,1080>> (* до банки *),
      <<1085,1072,32,1076,1077,1087,1086,1079,1080,1090>> (* на депозит *),
      <<1076,1077,1087,1086,1079,1080,1090>> (* депозит *),
      <<112,101,110,115,105,111,110>> (* pension *),
      <<1087,1077,1085,1089,1110,1103>> (* пенсія *)
    >>, cat |-> <<1030,1085,1074,1077,1089,1090,1080,1094,1110,1111,47,1057,1082,1072,1088,1073,1085,1080,1095,1082,1072>> (* Інвестиції/Скарбничка *), type |-> "transfer"],
  [keywords |-> <<
      <<1086,1073,1084,1110,1085,32,1074,1072,1083,1102,1090>> (* обмін валют *),
      <<99,117,114,114,101,110,99,121>> (* currency *),
      <<101,120,99,104,97,110,103,101>> (* exchange *),
      <<1082,1086,1085,1074,1077,1088,1089,1110,1103>> (* конверсія *),
      <<1087,1088,1086,1076,1072,1078,32,1074,1072,1083,1102,1090,1080>> (* продаж валюти *),
      <<1082,1091,1087,1110,1074,1083,1103,32,1074,1072,1083,1102,1090,1080>> (* купівля валюти *),
      <<117,115,100,32,115,101,108,108>> (* usd sell *),
      <<101,117,114,32,98,117,121>> (* eur buy *)
    >>, cat |-> <<1054,1073,1084,1110,1085,32,1074,1072,1083,1102,1090>> (* Обмін валют *), type |-> "transfer"],
  [keywords |-> <<
      <<1072,1087,1090,1077,1082,1072>> (* аптека *),
      <<112,104,97,114,109,97,99,121>> (* pharmacy *),
      <<102,97,114,109,97,99,121>> (* farmacy *),
      <<1083,1110,1082,1080>> (* ліки *),
      <<1083,1110,1082,1072,1088,1085,1103>> (* лікарня *),
      <<1082,1083,1110,1085,1110,1082,1072>> (* клініка *),
      <<99,108,105,110,105,99>> (* clinic *),
      <<1083,1110,1082,1072,1088>> (* лікар *),
      <<100,111,99,116,111,114>> (* doctor *),
      <<109,101,100,105,115>> (* medis *),
      <<1084,1077,1076,1110,1083,1072,1081,1092>> (* меділайф *)
    >>, cat |-> <<1051,1110,1082,1080,47,1051,1110,1082,1072,1088,1110>> (* Ліки/Лікарі *), type |-> "expense"],
  [keywords |-> <<
      <<103,121,109>> (* gym *),
      <<1089,1087,1086,1088,1090,1079,1072,1083>> (* спортзал *),
      <<1092,1110,1090,1085,1077,1089>> (* фітнес *),
      <<102,105,116,110,101,115,115>> (* fitness *),
      <<115,112,111,114,116,32,99,108,117,98>> (* sport club *),
      <<83,112,111,114,116,76,105,102,101>> (* SportLife *),
      <<1073,1072,1089,1077,1081,1085>> (* басейн *),
      <<1090,1088,1077,1085,1072,1078,1077,1088>> (* тренажер *)
    >>, cat |-> <<1057,1087,1086,1088,1090,1079,1072,1083>> (* Спортзал *), type |-> "expense"],
  [keywords |-> <<
      <<1087,1077,1088,1091,1082,1072,1088>> (* перукар *),
      <<98,97,114,98,101,114>> (* barber *),
      <<1082,1086,1089,1084,1077,1090,1080,1082,1072>> (* косметика *),
      <<115,97,108,111,110>> (* salon *),
      <<1084,1072,1085,1110,1082,1102,1088>> (* манікюр *),
      <<1087,1077,1076,1080,1082,1102,1088>> (* педикюр *),
      <<1082,1088,1072,1089,1072>> (* краса *),
      <<98,101,97,117,116,121>> (* beauty *)
    >>, cat |-> <<1041,39,1102,1090,1110>> (* Б'юті *), type |-> "expense"],
  [keywords |-> <<
      <<122,97,114,97>> (* zara *),
      <<104,38,109>> (* h&m *),
      <<98,101,114,115,104,107,97>> (* bershka *),
      <<114,101,115,101,114,118,101,100>> (* reserved *),
      <<108,99,119,97,105,107,105,107,105>> (* lcwaikiki *),
      <<112,117,108,108,38,98,101,97,114>> (* pull&bear *),
      <<109,97,110,103,111>> (* mango *),
      <<97,100,105,100,97,115>> (* adidas *),
      <<110,105,107,101>> (* nike *),
      <<112,117,109,97>> (* puma *),
      <<1086,1076,1103,1075>> (* одяг *),
      <<1074,1079,1091,1090,1090,1103>> (* взуття *),
      <<115,104,111,101,115>> (* shoes *),
      <<115,104,97,102,97>> (* shafa *),
      <<108,97,109,111,100,97>> (* lamoda *)
    >>, cat |-> <<1054,1076,1103,1075,47,1042,1079,1091,1090,1090,1103>> (* Одяг/Взуття *), type |-> "expense"],
  [keywords |-> <<
      <<1082,1110,1085,1086>> (* кіно *),
      <<99,105,110,101,109,97>> (* cinema *),
      <<109,117,108,116,105,112,108,101,120>> (* multiplex *),
      <<1087,1083,1072,1085,1077,1090,1072,1088,1110,1081>> (* планетарій *),
      <<1090,1077,1072,1090,1088>> (* театр *),
      <<99,111,110,99,101,114,116>> (* concert *),
      <<1082,1086,1085,1094,1077,1088,1090>> (* концерт *),
      <<1082,1074,1080,1090,1086,1082>> (* квиток *),
      <<116,105,99,107,101,116>> (* ticket *),
      <<101,118,101,110,116,98,114,105,116,101>> (* eventbrite *),
      <<107,97,114,97,98,97,115>> (* karabas *)
    >>, cat |-> <<1055,1086,1076,1110,1111,47,1061,1086,1073,1110>> (* Події/Хобі *), type |-> "expense"],
  [keywords |-> <<
      <<1079,1089,1091>> (* зсу *),
      <<112,114,121,116,117,108,97>> (* prytula *),
      <<1073,1083,1072,1075,1086,1076,1110,1081,1085>> (* благодійн *),
      <<99,104,97,114,105,116,121>> (* charity *),
      <<118,111,108,117,110,116,101,101,114>> (* volunteer *),
      <<1074,1086,1083,1086,1085,1090,1077,1088>> (* волонтер *),
      <<1076,1086,1085,1072,1090>> (* донат *),
      <<100,111,110,97,116>> (* donat *),
      <<117,107,114,97,105,110,101,32,110,111,119>> (* ukraine now *),
      <<1087,1086,1074,1085,1072,32,1095,1072,1096,1072>> (* повна чаша *),
      <<97,114,109,121>> (* army *)
    >>, cat |-> <<1047,1057,1059,47,1042,1086,1083,1086,1085,1090,1077,1088,1080>> (* ЗСУ/Волонтери *), type |-> "expense"],
  [keywords |-> <<
      <<1082,1086,1084,1110,1089,1110,1103,32,1073,1072,1085,1082,1091>> (* комісія банку *),
      <<1082,1086,1084,1110,1089,1110,1103,32,1079,1072>> (* комісія за *),
      <<98,97,110,107,32,102,101,101>> (* bank fee *),
      <<1087,1083,1072,1090,1072,32,1079,1072,32,1086,1073,1089,1083,1091,1075,1086,1074,1091,1074,1072,1085,1085,1103>> (* плата за обслуговування *),
      <<1086,1073,1089,1083,1091,1075,1086,1074,1091,1074,1072,1085,1085,1103,32,1088,1072,1093,1091,1085,1082,1091>> (* обслуговування рахунку *),
      <<1089,1084,1089,32,1110,1085,1092,1086,1088,1084,1091,1074,1072,1085,1085,1103>> (* смс інформування *)
    >>, cat |-> <<1050,1086,1084,1110,1089,1110,1111,32,1073,1072,1085,1082,1110,1074>> (* Комісії банків *), type |-> "expense"]
>>

\* the fallback of categorize
FALLBACK == [cat |-> <<1030,1085,1096,1077>> (* Інше *), type |-> "expense"]

IGNORE_MARKERS == <<<<1087,1086,1074,1077,1088,1085,1077,1085,1085,1103,32,1073,1086,1088,1075,1091>> (* повернення боргу *), <<1087,1086,1076,1110,1083>> (* поділ *), <<115,112,108,105,116,32,99,104,101,99,107>> (* split check *)>>

anyIn(kws, s) == \E i \in 1..Len(kws) : IsIn(kws[i], s)

\* ------------------------------------------------------------------ categorize

\* the indices of the keyword rules with a keyword in the description
keyword_hits(desc_lower) ==
  {i \in 1..Len(KEYWORD_RULES) : anyIn(KEYWORD_RULES[i].keywords, desc_lower)}

\* by_keyword with the ignore markers left unread
by_keyword_unmarked(desc_lower, hits) ==
  IF hits # {}
  THEN [cat |-> KEYWORD_RULES[Min(hits)].cat, type |-> KEYWORD_RULES[Min(hits)].type,
        ignore |-> FALSE]
  ELSE [cat |-> FALLBACK.cat, type |-> FALLBACK.type, ignore |-> FALSE]

\* the keyword layer and the fallback
by_keyword(desc_lower, hits) ==
  IF hits # {}
  THEN [cat |-> KEYWORD_RULES[Min(hits)].cat,
        type |-> KEYWORD_RULES[Min(hits)].type,
        ignore |-> anyIn(IGNORE_MARKERS, desc_lower)]
  ELSE [cat |-> FALLBACK.cat, type |-> FALLBACK.type, ignore |-> FALSE]

keyword_layer(desc_lower) == by_keyword(desc_lower, keyword_hits(desc_lower))

\* the MCC layer
by_mcc(entry) == [cat |-> entry.cat, type |-> entry.type, ignore |-> FALSE]

\* categorize with the keyword layer consulted before the MCC layer
categorize_keywords_first(description, mcc) ==
  IF keyword_hits(lower(description)) # {} THEN keyword_layer(lower(description))
  ELSE IF mcc # <<>> /\ strip(mcc) \in DOMAIN MCC_TO_CATEGORY
  THEN by_mcc(MCC_TO_CATEGORY[strip(mcc)])
  ELSE keyword_layer(lower(description))

categorize(description, mcc) ==
  IF mcc # <<>> /\ strip(mcc) \in DOMAIN MCC_TO_CATEGORY
  THEN by_mcc(MCC_TO_CATEGORY[strip(mcc)])
  ELSE keyword_layer(lower(description))

\* ------------------------------------------------------------------ find_category_id

\* category_id of a row whose category was not resolved (Python None)
NoId == "None"

\* the index in cats of the first entry satisfying P, 0 when there is none
FirstOf(S) == IF S = {} THEN 0 ELSE Min(S)

FirstIndex(cats, P(_)) == FirstOf({i \in 1..Len(cats) : P(cats[i])})

tokens(s) == split(replace(s, 47, 32), <<>>)

\* max(score) over the entries, 0 for no entry
best_score(same_type, q_tokens) ==
  IF same_type = <<>> THEN 0
  ELSE Max({Cardinality(q_tokens \cap tokens(lower(same_type[i].name))) :
              i \in 1..Len(same_type)})

\* stages with the containing names tried before the exact name
stages_substring_first(same_type, name_q, exact, sub, q_tokens, best) ==
  IF sub # 0 THEN same_type[sub].id
  ELSE IF exact # 0 THEN same_type[exact].id
  ELSE IF best > 0
  THEN same_type[FirstIndex(same_type,
         LAMBDA c : Cardinality(q_tokens \cap tokens(lower(c.name))) = best)].id
  ELSE NoId

\* the three stages over the entries of the type: the exact name, a name
\* that contains the query or is contained in it, the most shared tokens
stages(same_type, name_q, exact, sub, q_tokens, best) ==
  IF exact # 0 THEN same_type[exact].id
  ELSE IF sub # 0 THEN same_type[sub].id
  ELSE IF best > 0
  THEN same_type[FirstIndex(same_type,
         LAMBDA c : Cardinality(q_tokens \cap tokens(lower(c.name))) = best)].id
  ELSE NoId

find_in(same_type, name_q, q_tokens) ==
  stages(same_type, name_q,
         FirstIndex(same_type, LAMBDA c : strip(lower(c.name)) = name_q),
         FirstIndex(same_type, LAMBDA c : IsIn(name_q, strip(lower(c.name)))
                                          \/ IsIn(strip(lower(c.name)), name_q)),
         q_tokens, best_score(same_type, q_tokens))

find_typed(same_type, name_q) == find_in(same_type, name_q, tokens(name_q))

\* find_category_id over the entries of every type
find_category_id_any_type(cats, name, tx_type) == find_typed(cats, strip(lower(name)))

find_category_id(cats, name, tx_type) ==
  find_typed(SelectSeq(cats, LAMBDA c : c.type = tx_type), strip(lower(name)))

\* ------------------------------------------------------------------ float

\* A Python float: k is "num", "inf" or "nan"; neg is the sign bit; m is the
\* magnitude in thousandths (digits past the third decimal are dropped: the
\* cells drawn by this model have at most three).  NoFloat is Python None
\* where a float is expected.
Num(neg, m) == [k |-> "num", neg |-> neg, m |-> m]

NaN == [k |-> "nan", neg |-> FALSE, m |-> 0]

Inf(neg) == [k |-> "inf", neg |-> neg, m |-> 0]

NoFloat == [k |-> "none", neg |-> FALSE, m |-> 0]

\* x < 0, x > 0, abs(x), -x, bool(x): every comparison with a NaN is false,
\* and a NaN is truthy
FNeg0(x) == (x.k = "inf" /\ x.neg) \/ (x.k = "num" /\ x.neg /\ x.m > 0)

FPos0(x) == (x.k = "inf" /\ ~x.neg) \/ (x.k = "num" /\ ~x.neg /\ x.m > 0)

fabs(x) == [x EXCEPT !.neg = FALSE]

fneg(x) == IF x.k = "nan" THEN x ELSE [x EXCEPT !.neg = ~x.neg]

truthy(x) == x.k \in {"inf", "nan"} \/ (x.k = "num" /\ x.m # 0)

\* the threshold 0.01 of both pipelines, in thousandths
MIN_AMOUNT == 10

\* x < 0.01
FBelowMin(x) == (x.k = "inf" /\ x.neg) \/ (x.k = "num" /\ (x.neg \/ x.m < MIN_AMOUNT))

\* x >= 0.01
FAtLeastMin(x) == (x.k = "inf" /\ ~x.neg) \/ (x.k = "num" /\ ~x.neg /\ x.m >= MIN_AMOUNT)

\* x == y
FEq(x, y) == x.k # "nan" /\ y.k # "nan" /\ x.k = y.k
             /\ (x.k = "inf" => x.neg = y.neg)
             /\ (x.k = "num" => x.m = y.m /\ (x.m = 0 \/ x.neg = y.neg))

RECURSIVE Pow10(_)
Pow10(n) == IF n <= 0 THEN 1 ELSE 10 * Pow10(n - 1)

\* int(s) of a run of digits
RECURSIVE digitsValue(_)
digitsValue(s) ==
  IF s = <<>> THEN 0 ELSE 10 * digitsValue(SubSeq(s, 1, Len(s) - 1)) + (s[Len(s)] - 48)

alldigits(s) == \A i \in 1..Len(s) : isdigit(s[i])

\* a digit run of a float literal: digits, single underscores between digits
digitrun(s) ==
  /\ \A i \in 1..Len(s) : isdigit(s[i]) \/ s[i] = 95
  /\ \A i \in 1..Len(s) :
       s[i] = 95 => i > 1 /\ i < Len(s) /\ isdigit(s[i - 1]) /\ isdigit(s[i + 1])

\* float(s): ValueError is NoFloat.  The literal is [sign] (inf | infinity | nan)
\* in any case, or [sign] digits [. digits] [e [sign] digits] with a digit on
\* at least one side of the point; white space around it is ignored.  The
\* steps: the sign, the exponent, the point, the value.

\* the value of a well-formed literal: idig.fdig times ten to the e
float_value(neg, idig, fdig, e) ==
  IF e - Len(fdig) + 3 >= 0
  THEN Num(neg, digitsValue(idig \o fdig) * Pow10(e - Len(fdig) + 3))
  ELSE Num(neg, digitsValue(idig \o fdig) \div Pow10(Len(fdig) - e - 3))

\* ipart.fpart with the exponent digits edig (has_e: there is an "e")
float_parts(neg, ipart, fpart, has_e, eneg, edig) ==
  IF /\ digitrun(ipart) /\ digitrun(fpart)
     /\ (remove(ipart, 95) # <<>> \/ remove(fpart, 95) # <<>>)
     /\ (has_e => (edig # <<>> /\ digitrun(edig)))
  THEN float_value(neg, remove(ipart, 95), remove(fpart, 95),
                   (IF eneg THEN -1 ELSE 1) * digitsValue(remove(edig, 95)))
  ELSE NoFloat

\* the mantissa mant, split at its point
float_mant(neg, mant, dots, has_e, eneg, edig) ==
  IF Cardinality(dots) > 1 THEN NoFloat
  ELSE IF dots = {} THEN float_parts(neg, mant, <<>>, has_e, eneg, edig)
  ELSE float_parts(neg, SubSeq(mant, 1, Min(dots) - 1),
                   SubSeq(mant, Min(dots) + 1, Len(mant)), has_e, eneg, edig)

\* mant e expo
float_exp(neg, mant, has_e, expo) ==
  float_mant(neg, mant, {i \in 1..Len(mant) : mant[i] = 46}, has_e,
             expo # <<>> /\ expo[1] = 45,
             IF expo # <<>> /\ expo[1] \in {43, 45} THEN Tail(expo) ELSE expo)

\* the lower-cased literal without its sign
float_low(neg, low, epos) ==
  IF low = <<110,97,110>> (* nan *) THEN NaN
  ELSE IF low = <<105,110,102>> (* inf *) \/ low = <<105,110,102,105,110,105,116,121>> (* infinity *) THEN Inf(neg)
  ELSE IF Cardinality(epos) > 1 THEN NoFloat
  ELSE IF epos = {} THEN float_exp(neg, low, FALSE, <<>>)
  ELSE float_exp(neg, SubSeq(low, 1, Min(epos) - 1), TRUE,
                 SubSeq(low, Min(epos) + 1, Len(low)))

float_body(neg, low) == float_low(neg, low, {i \in 1..Len(low) : low[i] = 101})

float_signed(s0) ==
  float_body(s0 # <<>> /\ s0[1] = 45,
             lower(IF s0 # <<>> /\ s0[1] \in {43, 45} THEN Tail(s0) ELSE s0))

float(raw) == float_signed(strip(raw))

\* ------------------------------------------------------------------ the field parsers

\* clean_amount with every comma taken for a thousands separator
clean_amount_no_decimal_comma(c0) == remove(c0, 44)

\* the cell without its spaces: the comma is the decimal point when it is
\* the only one and there is no point, a thousands separator otherwise
clean_amount(c0) ==
  IF count(c0, 44) = 1 /\ count(c0, 46) = 0 THEN replace(c0, 44, 46)
  ELSE IF count(c0, 44) >= 1 THEN remove(c0, 44)
  ELSE c0

_parse_amount(raw) ==
  IF raw = None \/ raw = <<>> \/ strip(raw) = <<>> THEN NoFloat
  ELSE float(clean_amount(remove(remove(strip(raw), 160), 32)))

\* ------------------------------------------------------------------ dates

\* A datetime: k is "date" (v = <<Y, m, d, H, M, S>>), "ts" (a Unix time
\* stamp, v its digits), "now" (datetime.now(), the ingestion time), "none"
\* (Python None) or "raise" (an exception that _parse_date does not catch).
Date(v) == [k |-> "date", v |-> v]

NoDate == [k |-> "none", v |-> <<>>]

NowDate == [k |-> "now", v |-> <<>>]

DateRaise == [k |-> "raise", v |-> <<>>]

Lit(c) == [t |-> "lit", c |-> c]

Fld(t) == [t |-> t, c |-> 0]

\* the regular expression of a strptime format: a directive, a literal code
\* point, or a run of white space (\s+)
FMT_DMY_HMS ==
  <<Fld("d"), Lit(46), Fld("m"), Lit(46), Fld("Y"), Fld("ws"),
    Fld("H"), Lit(58), Fld("M"), Lit(58), Fld("S")>>

FMT_DMY_HM ==
  <<Fld("d"), Lit(46), Fld("m"), Lit(46), Fld("Y"), Fld("ws"), Fld("H"), Lit(58), Fld("M")>>

FMT_DMY == <<Fld("d"), Lit(46), Fld("m"), Lit(46), Fld("Y")>>

FMT_YMD_HMS ==
  <<Fld("Y"), Lit(45), Fld("m"), Lit(45), Fld("d"), Fld("ws"),
    Fld("H"), Lit(58), Fld("M"), Lit(58), Fld("S")>>

FMT_YMD == <<Fld("Y"), Lit(45), Fld("m"), Lit(45), Fld("d")>>

FMT_DMY_SLASH == <<Fld("d"), Lit(47), Fld("m"), Lit(47), Fld("Y")>>

FMT_YMD_SLASH == <<Fld("Y"), Lit(47), Fld("m"), Lit(47), Fld("d")>>

FMT_DMY_DASH == <<Fld("d"), Lit(45), Fld("m"), Lit(45), Fld("Y")>>

\* the formats of _parse_date, in the order tried
DATE_FORMATS ==
  <<FMT_DMY_HMS, FMT_DMY_HM, FMT_DMY, FMT_YMD_HMS, FMT_YMD,
    FMT_DMY_SLASH, FMT_YMD_SLASH, FMT_DMY_DASH>>

\* the formats of _parse_abank_date, in the order tried
ABANK_DATE_FORMATS == <<FMT_DMY_HM, FMT_DMY_HMS, FMT_DMY>>

two(s) == 10 * (s[1] - 48) + (s[2] - 48)

has2(s) == Len(s) >= 2 /\ isdigit(s[1]) /\ isdigit(s[2])

has1(s) == Len(s) >= 1 /\ isdigit(s[1])

\* the alternatives of a directive's group that match a prefix of s, in the
\* order the regular expression tries them: <<length, value>>
alts(t, s) ==
  LET a2(ok) == IF has2(s) /\ ok THEN << <<2, two(s)>> >> ELSE <<>>
      a1(ok) == IF has1(s) /\ ok THEN << <<1, s[1] - 48>> >> ELSE <<>>
      v2 == IF has2(s) THEN two(s) ELSE 0
      v1 == IF has1(s) THEN s[1] - 48 ELSE 0
  IN CASE t = "d" -> a2(v2 \in 1..31) \o a1(v1 \in 1..9)
                     \o (IF Len(s) >= 2 /\ s[1] = 32 /\ s[2] \in 49..57
                         THEN << <<2, s[2] - 48>> >> ELSE <<>>)
       [] t = "m" -> a2(v2 \in 1..12) \o a1(v1 \in 1..9)
       [] t = "H" -> a2(v2 \in 0..23) \o a1(TRUE)
       [] t = "M" -> a2(v2 \in 0..59) \o a1(TRUE)
       [] t = "S" -> a2(v2 \in 0..61) \o a1(TRUE)
       [] t = "Y" -> IF Len(s) >= 4 /\ alldigits(SubSeq(s, 1, 4))
                     THEN << <<4, digitsValue(SubSeq(s, 1, 4))>> >> ELSE <<>>

NoMatch == [ok |-> FALSE, rest |-> <<>>, f |-> <<>>]

\* re.match of the format's regular expression on s, with backtracking over
\* the alternatives: the fields in format order and the unmatched rest
RECURSIVE strp(_, _)
RECURSIVE tryalts(_, _, _)
strp(fmt, s) ==
  IF fmt = <<>> THEN [ok |-> TRUE, rest |-> s, f |-> <<>>]
  ELSE IF Head(fmt).t = "lit"
       THEN IF s # <<>> /\ s[1] = Head(fmt).c THEN strp(Tail(fmt), Tail(s)) ELSE NoMatch
  ELSE IF Head(fmt).t = "ws"
       THEN IF s # <<>> /\ isspace(s[1]) THEN strp(Tail(fmt), lstrip(s)) ELSE NoMatch
  ELSE tryalts(fmt, s, alts(Head(fmt).t, s))

tried(fmt, s, cands, r) ==
  IF r.ok
  THEN [ok |-> TRUE, rest |-> r.rest, f |-> << <<Head(fmt).t, Head(cands)[2]>> >> \o r.f]
  ELSE tryalts(fmt, s, Tail(cands))

tryalts(fmt, s, cands) ==
  IF cands = <<>> THEN NoMatch
  ELSE tried(fmt, s, cands, strp(Tail(fmt), SubSeq(s, Head(cands)[1] + 1, Len(s))))

field(f, t) ==
  LET S == {i \in 1..Len(f) : f[i][1] = t} IN IF S = {} THEN 0 ELSE f[Min(S)][2]

isleap(y) == (y % 4 = 0 /\ y % 100 # 0) \/ y % 400 = 0

daysin(y, m) ==
  IF m = 2 THEN (IF isleap(y) THEN 29 ELSE 28)
  ELSE IF m \in {4, 6, 9, 11} THEN 30 ELSE 31

\* the datetime of the matched fields; ValueError is NoDate
date_of(Y, m, d, H, M, S) ==
  IF Y >= 1 /\ d <= daysin(Y, m) /\ S <= 59 THEN Date(<<Y, m, d, H, M, S>>) ELSE NoDate

matched_date(r) ==
  IF r.ok /\ r.rest = <<>>
  THEN date_of(field(r.f, "Y"), field(r.f, "m"), field(r.f, "d"),
               field(r.f, "H"), field(r.f, "M"), field(r.f, "S"))
  ELSE NoDate

\* datetime.strptime(s, fmt); ValueError is NoDate: the text must match to
\* its end and name a date of the calendar
strptime(s, fmt) == matched_date(strp(fmt, s))

\* the first format of fmts that parses s
RECURSIVE firstformat(_, _)
firstparsed(s, fmts, d) == IF d.k = "date" THEN d ELSE firstformat(s, Tail(fmts))

firstformat(s, fmts) ==
  IF fmts = <<>> THEN NoDate ELSE firstparsed(s, fmts, strptime(s, Head(fmts)))

RECURSIVE nozeros(_)
nozeros(s) == IF s # <<>> /\ s[1] = 48 THEN nozeros(Tail(s)) ELSE s

\* int(a) <= int(b) for two runs of digits
RECURSIVE lexle(_, _)
lexle(a, b) ==
  IF a = <<>> THEN TRUE
  ELSE IF a[1] # b[1] THEN a[1] < b[1]
  ELSE lexle(Tail(a), Tail(b))

DigitsLE(a, b) ==
  LET x == nozeros(a)
      y == nozeros(b)
  IN Len(x) < Len(y) \/ (Len(x) = Len(y) /\ lexle(x, y))

\* the last second of the year 9999, the largest time_t
TS_MAX_YEAR == <<50,53,51,52,48,50,51,48,48,55,57,57>> (* 253402300799 *)

TS_MAX_TIME_T == <<57,50,50,51,51,55,50,48,51,54,56,53,52,55,55,53,56,48,55>> (* 9223372036854775807 *)

\* datetime.fromtimestamp(int(raw)) under "except (ValueError, OSError): pass":
\* a year past 9999 is a ValueError and a failing localtime() an OSError, both
\* caught; an integer past time_t is an OverflowError, which is not
fromtimestamp(raw) ==
  IF DigitsLE(raw, TS_MAX_YEAR) THEN [k |-> "ts", v |-> nozeros(raw)]
  ELSE IF DigitsLE(raw, TS_MAX_TIME_T) THEN NoDate
  ELSE DateRaise

stamp_or_formats(raw, ts) == IF ts.k # "none" THEN ts ELSE firstformat(raw, DATE_FORMATS)

parse_stripped_date(raw) ==
  stamp_or_formats(raw, IF alldigits(raw) /\ Len(raw) >= 9 THEN fromtimestamp(raw) ELSE NoDate)

_parse_date(raw) ==
  IF raw = None \/ raw = <<>> \/ strip(raw) = <<>> THEN NoDate
  ELSE parse_stripped_date(strip(raw))

\* _parse_date(raw) or datetime.now()
dateOrNow(d) == IF d.k = "none" THEN NowDate ELSE d

\* ------------------------------------------------------------------ detect_bank

MONO == "monobank"

PRIVAT == "privatbank"

OSCHADBANK == "oschadbank"

RAIFFEISEN == "raiffeisen"

PUMB == "pumb"

ABANK == "abank"

GENERIC == "generic"

\* any(sub in h for h in h_lower) with "in" read as equality
anyHas_whole(h_lower, sub) == sub \in h_lower

\* any(sub in h for h in h_lower)
anyHas(h_lower, sub) == \E h \in h_lower : IsIn(sub, h)

detect_bank(headers) ==
  LET h_lower == {strip(lower(headers[i])) : i \in 1..Len(headers)}
  IN IF <<109,99,99>> (* mcc *) \in h_lower /\ anyHas(h_lower, <<1076,1077,1090,1072,1083,1110,32,1086,1087,1077,1088,1072,1094,1110,1111>> (* деталі операції *)) THEN MONO
     ELSE IF anyHas(h_lower, <<1076,1072,1090,1072,32,1110,32,1095,1072,1089,32,1086,1087,1077,1088,1072,1094,1110,1111>> (* дата і час операції *)) THEN MONO
     ELSE IF anyHas(h_lower, <<1076,1072,1090,1072,32,1110,32,1095,1072,1089>> (* дата і час *)) /\ anyHas(h_lower, <<1086,1087,1080,1089,32,1086,1087,1077,1088,1072,1094,1110,1111>> (* опис операції *)) THEN PRIVAT
     ELSE IF anyHas(h_lower, <<1076,1077,1090,1072,1083,1110,32,1086,1087,1077,1088,1072,1094,1110,1111>> (* деталі операції *)) /\ <<1082,1072,1090,1077,1075,1086,1088,1110,1103>> (* категорія *) \in h_lower THEN PRIVAT
     ELSE IF anyHas(h_lower, <<1087,1088,1080,1079,1085,1072,1095,1077,1085,1085,1103,32,1087,1083,1072,1090,1077,1078,1091>> (* призначення платежу *))
             /\ (anyHas(h_lower, <<1076,1077,1073,1077,1090>> (* дебет *)) \/ anyHas(h_lower, <<1082,1088,1077,1076,1080,1090>> (* кредит *))) THEN OSCHADBANK
     ELSE IF anyHas(h_lower, <<1087,1088,1080,1079,1085,1072,1095,1077,1085,1085,1103,32,1087,1083,1072,1090,1077,1078,1091>> (* призначення платежу *)) THEN OSCHADBANK
     ELSE IF anyHas(h_lower, <<111,112,101,114,97,116,105,111,110,32,100,97,116,101>> (* operation date *)) THEN RAIFFEISEN
     ELSE IF (\E h \in h_lower : IsIn(<<100,111,99,117,109,101,110,116,32,97,109,111,117,110,116>> (* document amount *), h) \/ IsIn(<<1086,1087,1077,1088,1072,1094,1110,1103>> (* операція *), h))
             /\ <<97,109,111,117,110,116>> (* amount *) \in h_lower THEN RAIFFEISEN
     ELSE IF anyHas(h_lower, <<1076,1072,1090,1072,32,1076,1086,1082,1091,1084,1077,1085,1090,1091>> (* дата документу *)) /\ anyHas(h_lower, <<1087,1088,1080,1079,1085,1072,1095,1077,1085,1085,1103>> (* призначення *)) THEN PUMB
     ELSE IF \E h \in h_lower : IsIn(<<1087,1091,1084,1073>> (* пумб *), h) \/ IsIn(<<112,117,109,98>> (* pumb *), h) THEN PUMB
     ELSE IF anyHas(h_lower, <<1087,1088,1080,1093,1110,1076>> (* прихід *)) \/ anyHas(h_lower, <<1074,1080,1090,1088,1072,1090,1080>> (* витрати *)) THEN ABANK
     ELSE IF \E h \in h_lower : IsIn(<<97,98,97,110,107>> (* abank *), h) \/ IsIn(<<1072,45,1073,1072,1085,1082>> (* а-банк *), h) THEN ABANK
     ELSE GENERIC

\* ------------------------------------------------------------------ csv.DictReader

\* The dict that csv.DictReader builds of a data row, as its items in
\* insertion order: a short row gets None (restval) for its missing fields, a
\* long row gets its surplus fields as a list under the key None (restkey).
\* The field names are taken to be distinct.
DictRow(fieldnames, cells) ==
  LET zipped == [i \in 1..Len(fieldnames) |->
                   [k |-> fieldnames[i],
                    v |-> IF i <= Len(cells) THEN cells[i] ELSE None]]
  IN IF Len(cells) > Len(fieldnames)
     THEN Append(zipped, [k |-> None, v |-> None])
     ELSE zipped

\* an AttributeError: None has no attribute "lower"
Raise == <<-2>>

\* _get(row, *keys): the stripped value of the first key of keys that the row
\* has, "" when it has none.  The scan of the items for one key calls
\* k.lower() on every key up to the matching one, so it raises at the key
\* None unless a field before it matches.
RECURSIVE _get(_, _)
_get(row, keys) ==
  IF keys = <<>> THEN <<>>
  ELSE LET key == strip(lower(Head(keys)))
           stop == {i \in 1..Len(row) :
                      row[i].k = None \/ strip(lower(row[i].k)) = key}
       IN IF stop = {} THEN _get(row, Tail(keys))
          ELSE IF row[Min(stop)].k = None THEN Raise
          ELSE IF row[Min(stop)].v = None THEN <<>>
          ELSE strip(row[Min(stop)].v)

\* ------------------------------------------------------------------ the row extractors

\* what a row extractor gives: a row, None (the row is rejected) or an
\* exception
\* cell_description records the description cell that the row was made from
Parsed(date, amount, description, mcc, cell_description) ==
  [k |-> "row", date |-> date, amount |-> amount, description |-> description, mcc |-> mcc,
   error |-> "none", cell_description |-> cell_description]

Rejected ==
  [k |-> "none", date |-> NoDate, amount |-> NoFloat, description |-> <<>>, mcc |-> <<>>,
   error |-> "none", cell_description |-> <<>>]

\* k.lower() on the key None
Raised ==
  [k |-> "raise", date |-> NoDate, amount |-> NoFloat, description |-> <<>>, mcc |-> <<>>,
   error |-> "AttributeError", cell_description |-> <<>>]

\* datetime.fromtimestamp on a number past the platform's time_t
Overflowed == [Raised EXCEPT !.error = "OverflowError"]

\* the common tail of the extractors, on the cells found and what
\* _parse_amount and _parse_date make of them: a cell lookup that raised, an
\* amount that is None, a date that raised, or the row
extracted(raws, amount, date, desc_raw, mcc_raw) ==
  IF Raise \in raws THEN Raised
  ELSE IF amount.k = "none" THEN Rejected
  ELSE IF date.k = "raise" THEN Overflowed
  ELSE Parsed(dateOrNow(date), amount, desc_raw, mcc_raw, desc_raw)

\* the single-amount extractors
single(date_raw, amount_raw, desc_raw, mcc_raw) ==
  extracted({date_raw, amount_raw, desc_raw, mcc_raw},
            _parse_amount(amount_raw), _parse_date(date_raw), desc_raw, mcc_raw)

parse_row_mono(row) ==
  single(_get(row, <<<<1044,1072,1090,1072,32,1110,32,1095,1072,1089,32,1086,1087,1077,1088,1072,1094,1110,1111>> (* Дата і час операції *), <<100,97,116,101>> (* date *)>>),
         _get(row, <<<<1057,1091,1084,1072>> (* Сума *), <<1057,1091,1084,1072,32,1091,32,1074,1072,1083,1102,1090,1110,32,1088,1072,1093,1091,1085,1082,1091>> (* Сума у валюті рахунку *), <<1057,1091,1084,1072,32,40,1091,32,1074,1072,1083,1102,1090,1110,32,1088,1072,1093,1091,1085,1082,1091,41>> (* Сума (у валюті рахунку) *), <<97,109,111,117,110,116>> (* amount *)>>),
         _get(row, <<<<1044,1077,1090,1072,1083,1110,32,1086,1087,1077,1088,1072,1094,1110,1111>> (* Деталі операції *), <<1054,1087,1080,1089>> (* Опис *), <<100,101,115,99,114,105,112,116,105,111,110>> (* description *)>>),
         _get(row, <<<<77,67,67>> (* MCC *), <<77,99,99>> (* Mcc *), <<109,99,99>> (* mcc *)>>))

\* the old layout keeps the time in a column of its own
privat_date(date_raw, time_raw) ==
  IF date_raw = Raise \/ time_raw = Raise THEN Raise
  ELSE IF time_raw # <<>> /\ ~IsIn(<<32>>, date_raw) THEN date_raw \o <<32>> \o time_raw
  ELSE date_raw

parse_row_privat(row) ==
  single(privat_date(_get(row, <<<<1044,1072,1090,1072,32,1110,32,1095,1072,1089>> (* Дата і час *), <<1044,1072,1090,1072>> (* Дата *), <<68,97,116,101>> (* Date *)>>),
                     _get(row, <<<<1063,1072,1089>> (* Час *), <<84,105,109,101>> (* Time *)>>)),
         _get(row, <<<<1057,1091,1084,1072,32,1074,32,1075,1088,1080,1074,1085,1110>> (* Сума в гривні *), <<1057,1091,1084,1072>> (* Сума *), <<65,109,111,117,110,116>> (* Amount *), <<1057,1091,1084,1072,32,1091,32,1074,1072,1083,1102,1090,1110>> (* Сума у валюті *)>>),
         _get(row, <<<<1054,1087,1080,1089,32,1086,1087,1077,1088,1072,1094,1110,1111>> (* Опис операції *), <<1044,1077,1090,1072,1083,1110,32,1086,1087,1077,1088,1072,1094,1110,1111>> (* Деталі операції *), <<1044,1077,1090,1072,1083,1110>> (* Деталі *), <<1055,1088,1080,1079,1085,1072,1095,1077,1085,1085,1103>> (* Призначення *),
                     <<68,101,115,99,114,105,112,116,105,111,110>> (* Description *)>>),
         _get(row, <<<<77,67,67>> (* MCC *), <<77,99,99>> (* Mcc *)>>))

\* "x and x > 0" of a parsed cell
positive(x) == x.k # "none" /\ truthy(x) /\ FPos0(x)

\* the amount of the two-column extractors: first is the column tested first,
\* firstIsOut says that it is the column of the money going out
two_amount(first, second, firstIsOut) ==
  IF positive(first) THEN (IF firstIsOut THEN fneg(first) ELSE first)
  ELSE IF positive(second) THEN (IF firstIsOut THEN second ELSE fneg(second))
  ELSE NoFloat

twocolumn(date_raw, first_raw, second_raw, desc_raw, firstIsOut) ==
  extracted({date_raw, first_raw, second_raw, desc_raw},
            two_amount(_parse_amount(first_raw), _parse_amount(second_raw), firstIsOut),
            _parse_date(date_raw), desc_raw, <<>>)

parse_row_oschadbank(row) ==
  twocolumn(_get(row, <<<<1044,1072,1090,1072,32,1086,1087,1077,1088,1072,1094,1110,1111>> (* Дата операції *), <<1044,1072,1090,1072,32,1087,1088,1086,1074,1077,1076,1077,1085,1085,1103>> (* Дата проведення *), <<1044,1072,1090,1072>> (* Дата *), <<68,97,116,101>> (* Date *)>>),
            _get(row, <<<<1044,1077,1073,1077,1090>> (* Дебет *), <<1057,1091,1084,1072,32,1076,1077,1073,1077,1090,1091>> (* Сума дебету *), <<68,101,98,105,116>> (* Debit *)>>),
            _get(row, <<<<1050,1088,1077,1076,1080,1090>> (* Кредит *), <<1057,1091,1084,1072,32,1082,1088,1077,1076,1080,1090,1091>> (* Сума кредиту *), <<67,114,101,100,105,116>> (* Credit *)>>),
            _get(row, <<<<1055,1088,1080,1079,1085,1072,1095,1077,1085,1085,1103,32,1087,1083,1072,1090,1077,1078,1091>> (* Призначення платежу *), <<1055,1088,1080,1079,1085,1072,1095,1077,1085,1085,1103>> (* Призначення *), <<1053,1072,1081,1084,1077,1085,1091,1074,1072,1085,1085,1103,32,1082,1086,1085,1090,1088,1072,1075,1077,1085,1090,1072>> (* Найменування контрагента *),
                        <<1044,1077,1090,1072,1083,1110>> (* Деталі *)>>),
            TRUE)

\* the flag column decides the sign: D is a debit, C a credit
flagged(amount, dc_flag) ==
  IF amount.k = "none" THEN amount
  ELSE IF startswith(upper(dc_flag), <<68>> (* D *)) THEN fneg(fabs(amount))
  ELSE IF startswith(upper(dc_flag), <<67>> (* C *)) THEN fabs(amount)
  ELSE amount

raiffeisen(date_raw, amount_raw, desc_raw, dc_flag) ==
  extracted({date_raw, amount_raw, desc_raw, dc_flag},
            flagged(_parse_amount(amount_raw), dc_flag), _parse_date(date_raw), desc_raw, <<>>)

parse_row_raiffeisen(row) ==
  raiffeisen(_get(row, <<<<79,80,69,82,65,84,73,79,78,32,68,65,84,69>> (* OPERATION DATE *), <<79,112,101,114,97,116,105,111,110,32,68,97,116,101>> (* Operation Date *), <<1044,1072,1090,1072,32,1086,1087,1077,1088,1072,1094,1110,1111>> (* Дата операції *), <<68,97,116,101>> (* Date *)>>),
             _get(row, <<<<68,79,67,85,77,69,78,84,32,65,77,79,85,78,84>> (* DOCUMENT AMOUNT *), <<68,111,99,117,109,101,110,116,32,65,109,111,117,110,116>> (* Document Amount *), <<65,109,111,117,110,116>> (* Amount *), <<1057,1091,1084,1072>> (* Сума *),
                         <<1057,1091,1084,1072,32,1086,1087,1077,1088,1072,1094,1110,1111>> (* Сума операції *)>>),
             _get(row, <<<<84,82,65,78,83,65,67,84,73,79,78,32,68,69,83,67,82,73,80,84,73,79,78>> (* TRANSACTION DESCRIPTION *), <<84,114,97,110,115,97,99,116,105,111,110,32,68,101,115,99,114,105,112,116,105,111,110>> (* Transaction Description *),
                         <<1055,1088,1080,1079,1085,1072,1095,1077,1085,1085,1103>> (* Призначення *), <<68,101,115,99,114,105,112,116,105,111,110>> (* Description *), <<1044,1077,1090,1072,1083,1110>> (* Деталі *)>>),
             _get(row, <<<<68,69,66,73,84,47,67,82,69,68,73,84>> (* DEBIT/CREDIT *), <<68,47,67>> (* D/C *), <<1058,1080,1087,32,1086,1087,1077,1088,1072,1094,1110,1111>> (* Тип операції *), <<84,121,112,101>> (* Type *)>>))

parse_row_pumb(row) ==
  twocolumn(_get(row, <<<<1044,1072,1090,1072,32,1076,1086,1082,1091,1084,1077,1085,1090,1091>> (* Дата документу *), <<1044,1072,1090,1072,32,1086,1087,1077,1088,1072,1094,1110,1111>> (* Дата операції *), <<1044,1072,1090,1072>> (* Дата *), <<68,97,116,101>> (* Date *)>>),
            _get(row, <<<<1044,1077,1073,1077,1090>> (* Дебет *), <<1057,1091,1084,1072,32,1076,1077,1073,1077,1090,1091>> (* Сума дебету *), <<68,101,98,105,116>> (* Debit *), <<1042,1080,1090,1088,1072,1090,1080>> (* Витрати *)>>),
            _get(row, <<<<1050,1088,1077,1076,1080,1090>> (* Кредит *), <<1057,1091,1084,1072,32,1082,1088,1077,1076,1080,1090,1091>> (* Сума кредиту *), <<67,114,101,100,105,116>> (* Credit *), <<1053,1072,1076,1093,1086,1076,1078,1077,1085,1085,1103>> (* Надходження *)>>),
            _get(row, <<<<1055,1088,1080,1079,1085,1072,1095,1077,1085,1085,1103>> (* Призначення *), <<1055,1088,1080,1079,1085,1072,1095,1077,1085,1085,1103,32,1087,1083,1072,1090,1077,1078,1091>> (* Призначення платежу *), <<1053,1072,1081,1084,1077,1085,1091,1074,1072,1085,1085,1103,32,1082,1086,1085,1090,1088,1072,1075,1077,1085,1090,1072>> (* Найменування контрагента *),
                        <<1054,1087,1080,1089>> (* Опис *), <<68,101,115,99,114,105,112,116,105,111,110>> (* Description *)>>),
            TRUE)

parse_row_abank(row) ==
  twocolumn(_get(row, <<<<1044,1072,1090,1072>> (* Дата *), <<1044,1072,1090,1072,32,1086,1087,1077,1088,1072,1094,1110,1111>> (* Дата операції *), <<1044,1072,1090,1072,32,1110,32,1095,1072,1089>> (* Дата і час *), <<68,97,116,101>> (* Date *)>>),
            _get(row, <<<<1055,1088,1080,1093,1110,1076>> (* Прихід *), <<1053,1072,1076,1093,1086,1076,1078,1077,1085,1085,1103>> (* Надходження *), <<73,110,99,111,109,101>> (* Income *), <<1047,1072,1088,1072,1093,1091,1074,1072,1085,1085,1103>> (* Зарахування *)>>),
            _get(row, <<<<1042,1080,1090,1088,1072,1090,1080>> (* Витрати *), <<1042,1080,1090,1088,1072,1090,1072>> (* Витрата *), <<1057,1087,1080,1089,1072,1085,1085,1103>> (* Списання *), <<69,120,112,101,110,115,101>> (* Expense *)>>),
            _get(row, <<<<1054,1087,1080,1089>> (* Опис *), <<1044,1077,1090,1072,1083,1110>> (* Деталі *), <<1055,1088,1080,1079,1085,1072,1095,1077,1085,1085,1103>> (* Призначення *), <<68,101,115,99,114,105,112,116,105,111,110>> (* Description *), <<1053,1072,1081,1084,1077,1085,1091,1074,1072,1085,1085,1103>> (* Найменування *)>>),
            FALSE)

\* the loop of parse_row_generic over the items, item i onwards, with the
\* fields found so far; k.lower() raises at the key None
RECURSIVE generic_scan(_, _, _, _, _, _)
generic_next(row, i, date, amount, desc, mcc) ==
  IF date.k = "raise" THEN Overflowed ELSE generic_scan(row, i + 1, date, amount, desc, mcc)

generic_item(row, i, k_lower, v, date, amount, desc, mcc) ==
  generic_next(row, i,
    IF date.k = "none" /\ anyIn(<<<<100,97,116,101>> (* date *), <<1076,1072,1090,1072>> (* дата *)>>, k_lower) THEN _parse_date(v) ELSE date,
    IF amount.k = "none" /\ anyIn(<<<<97,109,111,117,110,116>> (* amount *), <<1089,1091,1084,1072>> (* сума *), <<115,117,109>> (* sum *)>>, k_lower)
    THEN _parse_amount(v) ELSE amount,
    IF desc = <<>> /\ anyIn(<<<<100,101,115,99>> (* desc *), <<1086,1087,1080,1089>> (* опис *), <<100,101,116,97,105,108>> (* detail *), <<114,101,102,101,114,101,110,99,101>> (* reference *), <<110,111,116,101>> (* note *),
                              <<1087,1088,1080,1079,1085,1072,1095,1077,1085,1085,1103>> (* призначення *), <<1076,1077,1090,1072,1083,1110>> (* деталі *)>>, k_lower)
    THEN (IF v = None THEN <<>> ELSE strip(v)) ELSE desc,
    IF mcc = <<>> /\ IsIn(<<109,99,99>> (* mcc *), k_lower)
    THEN (IF v = None THEN <<>> ELSE strip(v)) ELSE mcc)

generic_scan(row, i, date, amount, desc, mcc) ==
  IF i > Len(row)
  THEN (IF amount.k = "none" THEN Rejected ELSE Parsed(dateOrNow(date), amount, desc, mcc, desc))
  ELSE IF row[i].k = None THEN Raised
  ELSE generic_item(row, i, lower(row[i].k), row[i].v, date, amount, desc, mcc)

parse_row_generic(row) == generic_scan(row, 1, NoDate, NoFloat, <<>>, <<>>)

\* parser_map[bank]
parse_row(b, row) ==
  CASE b = MONO -> parse_row_mono(row)
    [] b = PRIVAT -> parse_row_privat(row)
    [] b = OSCHADBANK -> parse_row_oschadbank(row)
    [] b = RAIFFEISEN -> parse_row_raiffeisen(row)
    [] b = PUMB -> parse_row_pumb(row)
    [] b = ABANK -> parse_row_abank(row)
    [] b = GENERIC -> parse_row_generic(row)

\* ------------------------------------------------------------------ parse_csv

\* the income keywords of the sign correction
CSV_INCOME_KEYWORDS ==
  <<<<1079,1072,1088,1087,1083,1072,1090,1072>> (* зарплата *), <<1079,1087>> (* зп *), <<115,97,108,97,114,121>> (* salary *), <<1072,1074,1072,1085,1089>> (* аванс *), <<1085,1072,1088,1072,1093,1091,1074,1072,1085,1085,1103,32,1079,1087>> (* нарахування зп *), <<1074,1110,1076,32,1092,1110,1079,1080,1095,1085,1086,1111>> (* від фізичної *)>>

\* credit_correct with the category of the categorizer kept
credit_correct_keeps_category(c, is_income_kw) ==
  [cat |-> c.cat,
   type |-> IF is_income_kw THEN "income" ELSE "transfer",
   ignore |-> c.ignore]

\* credit_correct with the ignore flag of the categorizer dropped
credit_correct_not_ignored(c, is_income_kw) ==
  [cat |-> IF is_income_kw THEN <<1030,1085,1096,1080,1081,32,1076,1086,1093,1110,1076>> (* Інший дохід *) ELSE <<1055,1077,1088,1077,1082,1072,1079,32,40,1110,1085,1096,1077,41>> (* Переказ (інше) *),
   type |-> IF is_income_kw THEN "income" ELSE "transfer",
   ignore |-> FALSE]

\* the second correction: a credit that the categorizer typed an expense
credit_correct(c, is_income_kw) ==
  [cat |-> IF is_income_kw THEN <<1030,1085,1096,1080,1081,32,1076,1086,1093,1110,1076>> (* Інший дохід *) ELSE <<1055,1077,1088,1077,1082,1072,1079,32,40,1110,1085,1096,1077,41>> (* Переказ (інше) *),
   type |-> IF is_income_kw THEN "income" ELSE "transfer",
   ignore |-> c.ignore]

\* sign_correct with every credit that is no income corrected
sign_correct_every_credit(is_debit, c, description) ==
  IF is_debit /\ c.type = "income" THEN [cat |-> c.cat, type |-> "expense", ignore |-> c.ignore]
  ELSE IF ~is_debit /\ c.type # "income"
  THEN credit_correct(c, anyIn(CSV_INCOME_KEYWORDS, lower(description)))
  ELSE c

\* the sign correction of parse_csv, applied to what categorize returned: a
\* debit typed an income becomes an expense, then a credit typed an expense
\* becomes an income or a transfer
sign_correct(is_debit, c, description) ==
  IF is_debit /\ c.type = "income" THEN [cat |-> c.cat, type |-> "expense", ignore |-> c.ignore]
  ELSE IF ~is_debit /\ c.type = "expense"
  THEN credit_correct(c, anyIn(CSV_INCOME_KEYWORDS, lower(description)))
  ELSE c

\* (parsed["description"] or "")[:255] or None
stored_description(description) ==
  IF description = <<>> THEN None ELSE prefix(description, 255)

\* the dict appended for an extracted row with the category c; src_amount,
\* src_description and cell_description record what the row was built from
row_dict(parsed, c, category_id, b, is_outgoing) ==
  [amount |-> fabs(parsed.amount),
   type |-> c.type,
   category_id |-> category_id,
   description |-> stored_description(parsed.description),
   source |-> "csv",
   ignore_in_stats |-> c.ignore,
   transaction_date |-> parsed.date,
   raw_category |-> c.cat,
   mcc |-> parsed.mcc,
   bank |-> b,
   is_outgoing |-> is_outgoing,
   src_description |-> parsed.description,
   cell_description |-> parsed.cell_description,
   src_amount |-> parsed.amount]

resolved(parsed, c, cats, b, is_outgoing) ==
  row_dict(parsed, c, find_category_id(cats, c.cat, c.type), b, is_outgoing)

\* the category that parse_csv gives a row: what categorize returns, sign
\* corrected
csv_category(amount, description, mcc) ==
  sign_correct(FNeg0(amount), categorize(description, mcc), description)

\* csv_row with the category of the row emitted before it carried over
csv_row_as_previous(parsed, cats, b) ==
  resolved(parsed,
           IF rows = <<>> THEN csv_category(parsed.amount, parsed.description, parsed.mcc)
           ELSE [cat |-> rows[Len(rows)].raw_category, type |-> rows[Len(rows)].type,
                 ignore |-> rows[Len(rows)].ignore_in_stats],
           cats, b, "absent")

\* the dict that parse_csv appends for an extracted row
csv_row(parsed, cats, b) ==
  resolved(parsed, csv_category(parsed.amount, parsed.description, parsed.mcc), cats, b, "absent")

\* reader.fieldnames is read and the bank detected; no header row gives the
\* empty result at once
parse_csv_open ==
  /\ pc = "csv_open"
  /\ IF header = <<>>
     THEN pc' = "done" /\ bank' = GENERIC
     ELSE pc' = "csv_rows" /\ bank' = detect_bank(header)
  /\ UNCHANGED <<document, this_page, confirmation, rows, skipped, consumed, raw_rows, error, call>>

\* one turn of the loop over the reader, on what the row extractor gave
parse_csv_turn(parsed) ==
  /\ pc = "csv_rows"
  /\ consumed' = consumed + 1
  /\ IF parsed.k = "raise"
     THEN pc' = "raised" /\ error' = parsed.error /\ UNCHANGED <<rows, skipped>>
     ELSE IF parsed.k = "none" \/ FBelowMin(fabs(parsed.amount))
     THEN skipped' = skipped + 1 /\ UNCHANGED <<pc, rows, error>>
     ELSE /\ rows' = Append(rows, csv_row(parsed, categories, bank))
          /\ UNCHANGED <<pc, skipped, error>>
  /\ UNCHANGED <<document, this_page, confirmation, bank, raw_rows, call>>

\* one turn of the loop over the reader, on the data row with these cells
parse_csv_row(cells) == parse_csv_turn(parse_row(bank, DictRow(header, cells)))

\* the reader is exhausted: ParseResult(rows, skipped, bank)
parse_csv_return ==
  /\ pc = "csv_rows"
  /\ pc' = "done"
  /\ UNCHANGED <<document, this_page, confirmation, bank, rows, skipped, consumed, raw_rows, error, call>>

\* ------------------------------------------------------------------ the statements drawn

H_MONO == <<<<1044,1072,1090,1072,32,1110,32,1095,1072,1089,32,1086,1087,1077,1088,1072,1094,1110,1111>> (* Дата і час операції *), <<1044,1077,1090,1072,1083,1110,32,1086,1087,1077,1088,1072,1094,1110,1111>> (* Деталі операції *), <<77,67,67>> (* MCC *), <<1057,1091,1084,1072>> (* Сума *)>>

H_GENERIC == <<<<68,97,116,101>> (* Date *), <<65,109,111,117,110,116>> (* Amount *), <<68,101,115,99,114,105,112,116,105,111,110>> (* Description *)>>

H_OSCHAD == <<<<1044,1072,1090,1072,32,1086,1087,1077,1088,1072,1094,1110,1111>> (* Дата операції *), <<1055,1088,1080,1079,1085,1072,1095,1077,1085,1085,1103,32,1087,1083,1072,1090,1077,1078,1091>> (* Призначення платежу *), <<1044,1077,1073,1077,1090>> (* Дебет *), <<1050,1088,1077,1076,1080,1090>> (* Кредит *)>>

Headers == {<<>>, H_MONO, H_GENERIC, H_OSCHAD}

\* the column layouts that the docstrings of the row extractors name
L_MONO ==
  <<<<1044,1072,1090,1072,32,1110,32,1095,1072,1089,32,1086,1087,1077,1088,1072,1094,1110,1111>> (* Дата і час операції *), <<1044,1077,1090,1072,1083,1110,32,1086,1087,1077,1088,1072,1094,1110,1111>> (* Деталі операції *), <<77,67,67>> (* MCC *), <<1057,1091,1084,1072>> (* Сума *), <<1042,1072,1083,1102,1090,1072>> (* Валюта *),
    <<1057,1091,1084,1072,32,1091,32,1074,1072,1083,1102,1090,1110,32,1088,1072,1093,1091,1085,1082,1091>> (* Сума у валюті рахунку *), <<1050,1091,1088,1089>> (* Курс *), <<1050,1086,1084,1110,1089,1110,1103>> (* Комісія *), <<1050,1077,1096,1073,1077,1082>> (* Кешбек *), <<1047,1072,1083,1080,1096,1086,1082>> (* Залишок *)>>

L_PRIVAT ==
  <<<<1044,1072,1090,1072,32,1110,32,1095,1072,1089>> (* Дата і час *), <<1050,1072,1088,1090,1082,1072>> (* Картка *), <<1050,1072,1090,1077,1075,1086,1088,1110,1103>> (* Категорія *), <<1054,1087,1080,1089,32,1086,1087,1077,1088,1072,1094,1110,1111>> (* Опис операції *), <<1057,1091,1084,1072>> (* Сума *), <<1042,1072,1083,1102,1090,1072>> (* Валюта *), <<1047,1072,1083,1080,1096,1086,1082>> (* Залишок *)>>

L_PRIVAT_DETAILS ==
  <<<<1044,1072,1090,1072,32,1110,32,1095,1072,1089>> (* Дата і час *), <<1050,1072,1088,1090,1082,1072>> (* Картка *), <<1050,1072,1090,1077,1075,1086,1088,1110,1103>> (* Категорія *), <<1044,1077,1090,1072,1083,1110,32,1086,1087,1077,1088,1072,1094,1110,1111>> (* Деталі операції *), <<1057,1091,1084,1072>> (* Сума *), <<1042,1072,1083,1102,1090,1072>> (* Валюта *), <<1047,1072,1083,1080,1096,1086,1082>> (* Залишок *)>>

L_PRIVAT_OLD ==
  <<<<1044,1072,1090,1072>> (* Дата *), <<1063,1072,1089>> (* Час *), <<1044,1077,1090,1072,1083,1110,32,1086,1087,1077,1088,1072,1094,1110,1111>> (* Деталі операції *), <<1057,1091,1084,1072>> (* Сума *), <<1042,1072,1083,1102,1090,1072>> (* Валюта *), <<1047,1072,1083,1080,1096,1086,1082,32,1087,1110,1089,1083,1103>> (* Залишок після *)>>

L_OSCHADBANK ==
  <<<<1044,1072,1090,1072,32,1086,1087,1077,1088,1072,1094,1110,1111>> (* Дата операції *), <<1053,1072,1081,1084,1077,1085,1091,1074,1072,1085,1085,1103,32,1082,1086,1085,1090,1088,1072,1075,1077,1085,1090,1072>> (* Найменування контрагента *), <<1055,1088,1080,1079,1085,1072,1095,1077,1085,1085,1103,32,1087,1083,1072,1090,1077,1078,1091>> (* Призначення платежу *), <<1044,1077,1073,1077,1090>> (* Дебет *),
    <<1050,1088,1077,1076,1080,1090>> (* Кредит *), <<1047,1072,1083,1080,1096,1086,1082>> (* Залишок *)>>

L_RAIFFEISEN ==
  <<<<79,80,69,82,65,84,73,79,78,32,68,65,84,69>> (* OPERATION DATE *), <<68,79,67,85,77,69,78,84,32,65,77,79,85,78,84>> (* DOCUMENT AMOUNT *), <<84,82,65,78,83,65,67,84,73,79,78,32,68,69,83,67,82,73,80,84,73,79,78>> (* TRANSACTION DESCRIPTION *), <<68,69,66,73,84,47,67,82,69,68,73,84,32,70,76,65,71>> (* DEBIT/CREDIT FLAG *)>>

L_PUMB ==
  <<<<1044,1072,1090,1072,32,1076,1086,1082,1091,1084,1077,1085,1090,1091>> (* Дата документу *), <<1053,1072,1081,1084,1077,1085,1091,1074,1072,1085,1085,1103,32,1082,1086,1085,1090,1088,1072,1075,1077,1085,1090,1072>> (* Найменування контрагента *), <<1055,1088,1080,1079,1085,1072,1095,1077,1085,1085,1103>> (* Призначення *), <<1044,1077,1073,1077,1090>> (* Дебет *), <<1050,1088,1077,1076,1080,1090>> (* Кредит *),
    <<1047,1072,1083,1080,1096,1086,1082>> (* Залишок *)>>

L_PUMB_ALT == <<<<1044,1072,1090,1072,32,1086,1087,1077,1088,1072,1094,1110,1111>> (* Дата операції *), <<1054,1087,1080,1089>> (* Опис *), <<1057,1091,1084,1072,32,1076,1077,1073,1077,1090,1091>> (* Сума дебету *), <<1057,1091,1084,1072,32,1082,1088,1077,1076,1080,1090,1091>> (* Сума кредиту *)>>

L_ABANK == <<<<1044,1072,1090,1072>> (* Дата *), <<1054,1087,1080,1089>> (* Опис *), <<1055,1088,1080,1093,1110,1076>> (* Прихід *), <<1042,1080,1090,1088,1072,1090,1080>> (* Витрати *), <<1047,1072,1083,1080,1096,1086,1082>> (* Залишок *)>>

\* the bank whose extractor names the layout
Layouts ==
  {<<L_MONO, MONO>>, <<L_PRIVAT, PRIVAT>>, <<L_PRIVAT_DETAILS, PRIVAT>>,
   <<L_PRIVAT_OLD, PRIVAT>>, <<L_OSCHADBANK, OSCHADBANK>>, <<L_RAIFFEISEN, RAIFFEISEN>>,
   <<L_PUMB, PUMB>>, <<L_PUMB_ALT, PUMB>>, <<L_ABANK, ABANK>>}

LayoutHeaders == {l[1] : l \in Layouts}

DateCells == {<<48,49,46,48,50,46,50,48,50,52,32,49,48,58,48,48,58,48,48>> (* 01.02.2024 10:00:00 *)}

DescCells == {<<>> (*  *), <<1089,1110,1083,1100,1087,1086>> (* сільпо *), <<1079,1072,1088,1087,1083,1072,1090,1072>> (* зарплата *), <<1079,1072,1088,1087,1083,1072,1090,1072,32,1082,1072,1074,1072>> (* зарплата кава *)}

MccCells == {<<>> (*  *)}

AmountCells == {<<45,51,48,48>> (* -300 *), <<53,48,48,48>> (* 5000 *), <<48,46,48,48,53>> (* 0.005 *), <<110,97,110>> (* nan *), <<97,98,99>> (* abc *)}

DebitCells == {<<>> (*  *), <<50,53,48,46,48,48>> (* 250.00 *), <<48>> (* 0 *)}

CreditCells == {<<>> (*  *), <<49,48,48,44,53>> (* 100,5 *)}

\* the cells drawn for a column, by what its name says it holds
Choices(name) ==
  LET n == lower(name)
  IN IF IsIn(<<109,99,99>> (* mcc *), n) THEN MccCells
     ELSE IF IsIn(<<1076,1072,1090,1072>> (* дата *), n) \/ IsIn(<<100,97,116,101>> (* date *), n) THEN DateCells
     ELSE IF IsIn(<<1076,1077,1073,1077,1090>> (* дебет *), n) \/ IsIn(<<1074,1080,1090,1088,1072,1090,1080>> (* витрати *), n) THEN DebitCells
     ELSE IF IsIn(<<1082,1088,1077,1076,1080,1090>> (* кредит *), n) \/ IsIn(<<1087,1088,1080,1093,1110,1076>> (* прихід *), n) THEN CreditCells
     ELSE IF IsIn(<<1089,1091,1084,1072>> (* сума *), n) \/ IsIn(<<97,109,111,117,110,116>> (* amount *), n) THEN AmountCells
     ELSE DescCells

\* one cell of each column, for the rows that are too short or too long
Sample(name) ==
  LET n == lower(name)
  IN IF IsIn(<<109,99,99>> (* mcc *), n) THEN <<53,52,49,49>> (* 5411 *)
     ELSE IF IsIn(<<1076,1072,1090,1072>> (* дата *), n) \/ IsIn(<<100,97,116,101>> (* date *), n) THEN <<48,49,46,48,50,46,50,48,50,52,32,49,48,58,48,48,58,48,48>> (* 01.02.2024 10:00:00 *)
     ELSE IF IsIn(<<1076,1077,1073,1077,1090>> (* дебет *), n) \/ IsIn(<<1074,1080,1090,1088,1072,1090,1080>> (* витрати *), n) THEN <<50,53,48,46,48,48>> (* 250.00 *)
     ELSE IF IsIn(<<1082,1088,1077,1076,1080,1090>> (* кредит *), n) \/ IsIn(<<1087,1088,1080,1093,1110,1076>> (* прихід *), n) THEN <<>> (*  *)
     ELSE IF IsIn(<<1089,1091,1084,1072>> (* сума *), n) \/ IsIn(<<97,109,111,117,110,116>> (* amount *), n) THEN <<45,51,48,48>> (* -300 *)
     ELSE <<1089,1110,1083,1100,1087,1086>> (* сільпо *)

RECURSIVE Fill(_)
Fill(names) ==
  IF names = <<>> THEN {<<>>}
  ELSE {<<c>> \o rest : c \in Choices(Head(names)), rest \in Fill(Tail(names))}

SampleRow(names) == [i \in 1..Len(names) |-> Sample(names[i])]

\* the data rows drawn under a header: the rows of full length, the sample
\* row, the sample row cut short after each of its fields, and the sample row
\* with one field too many
RowCells(names) ==
  Fill(names)
  \cup {SubSeq(SampleRow(names), 1, n) : n \in 1..Len(names)}
  \cup {Append(SampleRow(names), <<101,120,116,114,97>> (* extra *))}

\* date cells that are empty, are no date, or are a number past time_t
OddDateCells == {<<>> (*  *), <<97,98,99>> (* abc *), <<51,49,46,48,50,46,50,48,50,52>> (* 31.02.2024 *), <<57,57,57,57,57,57,57,57,57,57,57,57,57,57,57,57,57,57,57,57>> (* 99999999999999999999 *)}

\* the sample row with the date cell d
Redated(names, d) ==
  [i \in 1..Len(names) |-> IF Choices(names[i]) = DateCells THEN d ELSE Sample(names[i])]

\* the data rows drawn under the header of a documented layout
LayoutRows(names) == {SampleRow(names)} \cup {Redated(names, d) : d \in OddDateCells}

DataRows ==
  [h \in Headers \cup LayoutHeaders |->
     IF h \in Headers THEN RowCells(h) \cup {Redated(h, d) : d \in OddDateCells}
     ELSE LayoutRows(h)]

CAT_FULL == <<
  [id |-> "c1", name |-> <<1030,1085,1096,1077>> (* Інше *), type |-> "expense"],
  [id |-> "c2", name |-> <<1047,1072,1088,1087,1083,1072,1090,1072>> (* Зарплата *), type |-> "income"],
  [id |-> "c3", name |-> <<1057,1091,1087,1077,1088,1084,1072,1088,1082,1077,1090,1080,32,1090,1072,32,1087,1088,1086,1076,1091,1082,1090,1080>> (* Супермаркети та продукти *), type |-> "expense"],
  [id |-> "c4", name |-> <<1055,1077,1088,1077,1082,1072,1079>> (* Переказ *), type |-> "transfer"],
  [id |-> "c5", name |-> <<1030,1085,1096,1077>> (* Інше *), type |-> "income"],
  [id |-> "c6", name |-> <<1044,1086,1093,1110,1076,32,1110,1085,1096,1080,1081>> (* Дохід інший *), type |-> "income"]
>>

\* ------------------------------------------------------------------ pdf: the tables

\* str(x or "").strip() of a table cell, a str or None
cell(x) == IF x = None THEN <<>> ELSE strip(x)

\* re.match(r"\d{2}\.\d{2}\.\d{4}", s); the digits drawn are the ASCII ones
date_like(s) ==
  /\ Len(s) >= 10
  /\ \A i \in {1, 2, 4, 5, 7, 8, 9, 10} : isdigit(s[i])
  /\ s[3] = 46 /\ s[6] = 46

\* re.match(r"\d{3,4}", s)
mcc_like(s) == Len(s) >= 3 /\ \A i \in 1..3 : isdigit(s[i])

_is_abank_table(table) ==
  /\ Len(table) >= 2
  /\ Len(table[1]) = 11
  /\ \E i \in 2..Min({4, Len(table)}) :
       /\ Len(table[i]) >= 5
       /\ date_like(cell(table[i][1]))
       /\ mcc_like(cell(table[i][4]))

\* re.sub(r"(?<=\d) (?=\d)", "", s), from the character i on
RECURSIVE unspace(_, _)
unspace(s, i) ==
  IF i > Len(s) THEN <<>>
  ELSE (IF s[i] = 32 /\ 1 < i /\ i < Len(s) /\ isdigit(s[i - 1]) /\ isdigit(s[i + 1])
        THEN <<>> ELSE <<s[i]>>) \o unspace(s, i + 1)

_parse_abank_amount(raw) ==
  IF raw = <<>> \/ strip(raw) = <<>> THEN NoFloat ELSE float(unspace(strip(raw), 1))

_parse_abank_date(raw) ==
  IF raw = <<>> THEN NoDate ELSE firstformat(strip(replace(raw, 10, 32)), ABANK_DATE_FORMATS)

\* more than half of the characters are control characters, U+FFFD or one of
\* the bullet and box characters
_is_garbage(text) ==
  \/ text = <<>>
  \/ 2 * Cardinality({i \in 1..Len(text) :
                        text[i] < 32 \/ text[i] \in {65533, 8226, 9633, 9632}}) > Len(text)

\* what an extractor returns: the rows made and the number of rows skipped
extracted_rows(outs) ==
  [rows |-> SelectSeq(outs, LAMBDA o : o.k = "row"),
   skipped |-> Cardinality({i \in 1..Len(outs) : outs[i].k # "row"})]

abank_made(amount, date, desc_raw, mcc_raw) ==
  IF amount.k = "none" THEN Rejected
  ELSE Parsed(dateOrNow(date), amount, IF _is_garbage(desc_raw) THEN <<>> ELSE desc_raw, mcc_raw,
              desc_raw)

abank_fields(date_raw, desc_raw, mcc_raw, amt_raw) ==
  IF ~date_like(date_raw) THEN Rejected
  ELSE abank_made(_parse_abank_amount(amt_raw), _parse_abank_date(date_raw), desc_raw, mcc_raw)

\* one turn of the loop of _extract_abank_rows
abank_row(row) ==
  IF Len(row) < 5 THEN Rejected
  ELSE abank_fields(cell(row[1]), cell(row[3]), cell(row[4]), cell(row[5]))

_extract_abank_rows(table) ==
  extracted_rows([i \in 1..(Len(table) - 1) |-> abank_row(table[i + 1])])

_is_monobank_table(table) ==
  /\ Len(table) >= 2
  /\ Len(table[1]) = 10
  /\ IsIn(<<1044,1072,1090,1072>> (* Дата *), IF table[1][1] = None THEN <<>> ELSE table[1][1])

\* the description kept: a placeholder for an unreadable one, and the MCC in
\* brackets after it when the row has one
final_desc(desc_raw, mcc_raw) ==
  IF mcc_raw # <<>> THEN desc_raw \o <<32,40,77,67,67,32>> (*  (MCC  *) \o mcc_raw \o <<41>> (* ) *) ELSE desc_raw

mono_made(amount, date, desc_raw, mcc_raw) ==
  IF amount.k = "none" THEN Rejected
  ELSE Parsed(dateOrNow(date), amount,
              final_desc(IF _is_garbage(desc_raw)
                         THEN (IF mcc_raw # <<>> THEN <<1055,1077,1088,1077,1082,1072,1079>> (* Переказ *) ELSE <<1041,1077,1079,32,1086,1087,1080,1089,1091>> (* Без опису *))
                         ELSE desc_raw,
                         mcc_raw),
              mcc_raw, desc_raw)

mono_fields(date_raw, desc_raw, mcc_raw, amt_raw) ==
  IF date_raw = <<>> \/ IsIn(<<1044,1072,1090,1072>> (* Дата *), date_raw) THEN Rejected
  ELSE mono_made(_parse_abank_amount(amt_raw), _parse_abank_date(date_raw), desc_raw, mcc_raw)

\* one turn of the loop of _extract_monobank_rows
mono_row(row) ==
  IF Len(row) < 4 THEN Rejected
  ELSE mono_fields(cell(row[1]), replace(cell(row[2]), 10, 32), cell(row[3]), cell(row[4]))

_extract_monobank_rows(table) ==
  extracted_rows([i \in 1..(Len(table) - 1) |-> mono_row(table[i + 1])])

\* ------------------------------------------------------------------ pdf: the classifier

ALWAYS_TRANSFER_MCC == {<<54,48,49,48>> (* 6010 *), <<54,48,49,49>> (* 6011 *), <<54,48,49,50>> (* 6012 *), <<54,48,53,49>> (* 6051 *), <<54,48,53,48>> (* 6050 *)}

TRANSFER_OUT_KEYWORDS ==
  <<<<1076,1077,1087,1086,1079,1080,1090>> (* депозит *), <<1074,1082,1083,1072,1076>> (* вклад *), <<1085,1072,1082,1086,1087,1080,1095>> (* накопич *), <<1085,1072,32,1073,1072,1085,1082,1091>> (* на банку *), <<1079,1072,1086,1097,1072,1076,1078>> (* заощадж *), <<1089,1082,1072,1088,1073,1085,1080,1095,1082>> (* скарбничк *)>>

INCOME_KEYWORDS ==
  <<<<1079,1072,1088,1087,1083,1072,1090,1072>> (* зарплата *), <<1079,1087>> (* зп *), <<115,97,108,97,114,121>> (* salary *), <<1072,1074,1072,1085,1089>> (* аванс *), <<1074,1080,1087,1083,1072,1090,1072>> (* виплата *), <<1085,1072,1088,1072,1093,1091,1074,1072,1085,1085,1103,32,1079,1087>> (* нарахування зп *),
    <<1079,1072,1088,1086,1073,1110,1090,1085,1072,32,1087,1083,1072,1090,1072>> (* заробітна плата *), <<1092,1088,1110,1083,1072,1085,1089>> (* фріланс *), <<1085,1072,1076,1093,1086,1076,1078,1077,1085,1085,1103>> (* надходження *), <<1087,1086,1074,1077,1088,1085,1077,1085,1085,1103>> (* повернення *)>>

\* [А-ЯІЇЄҐ]
name_upper(c) == c \in 1040..1071 \/ c \in {1030, 1031, 1028, 1168}

\* [а-яіїєґ'\-]
name_lower(c) == c \in 1072..1103 \/ c \in {1110, 1111, 1108, 1169, 39, 45}

\* the ends j of a word [А-ЯІЇЄҐ][а-яіїєґ'\-]{1,20} that starts at i
word_ends(s, i) ==
  IF i <= Len(s) /\ name_upper(s[i])
  THEN {j \in (i + 1)..Min({i + 20, Len(s)}) : \A k \in (i + 1)..j : name_lower(s[k])}
  ELSE {}

\* _RE_PERSON_NAME matches s to its end from i on, n words being matched
\* before i: a word, then the end or a separator [\s\-] and the rest, two
\* to four words in all
RECURSIVE name_from(_, _, _)
name_from(s, i, n) ==
  \E j \in word_ends(s, i) :
    \/ j = Len(s) /\ n + 1 >= 2
    \/ j < Len(s) /\ n + 1 <= 3 /\ (isspace(s[j + 1]) \/ s[j + 1] = 45) /\ name_from(s, j + 2, n + 1)

\* [\d@.,/*&#(){}\[\]|]
name_barred(c) ==
  isdigit(c) \/ c \in {64, 46, 44, 47, 42, 38, 35, 40, 41, 123, 125, 91, 93, 124}

_is_person_name(text) ==
  /\ Len(text) >= 5
  /\ \A i \in 1..Len(text) : ~name_barred(text[i])
  /\ words(text, FALSE) \in 2..4
  /\ name_from(strip(text), 1, 0)

Cat(name, tx_type) == [cat |-> name, type |-> tx_type, ignore |-> FALSE]

\* the branch of the always-transfer codes; the test of the code 4829 in it
\* is of a code that is not in the set
always_transfer(is_positive, mcc, desc_lower) ==
  IF is_positive
  THEN (IF anyIn(INCOME_KEYWORDS, desc_lower) THEN Cat(<<1030,1085,1096,1080,1081,32,1076,1086,1093,1110,1076>> (* Інший дохід *), "income")
        ELSE IF mcc = <<52,56,50,57>> (* 4829 *) THEN Cat(<<1030,1085,1096,1080,1081,32,1076,1086,1093,1110,1076>> (* Інший дохід *), "income")
        ELSE Cat(<<1055,1077,1088,1077,1082,1072,1079,32,40,1110,1085,1096,1077,41>> (* Переказ (інше) *), "transfer"))
  ELSE (IF anyIn(TRANSFER_OUT_KEYWORDS, desc_lower) THEN Cat(<<1030,1085,1074,1077,1089,1090,1080,1094,1110,1111,47,1057,1082,1072,1088,1073,1085,1080,1095,1082,1072>> (* Інвестиції/Скарбничка *), "transfer")
        ELSE Cat(<<1055,1077,1088,1077,1082,1072,1079,32,40,1110,1085,1096,1077,41>> (* Переказ (інше) *), "transfer"))

\* a positive amount that the categorizer typed an expense
credited(c) == IF c.type = "expense" THEN Cat(<<1030,1085,1096,1080,1081,32,1076,1086,1093,1110,1076>> (* Інший дохід *), "income") ELSE c

\* an amount that is not positive and that the categorizer typed an income
debited(c) == IF c.type = "income" THEN Cat(<<1030,1085,1096,1077>> (* Інше *), "expense") ELSE c

\* by_sign without the classifier's own test of the salary keywords
by_sign_unsalaried(is_positive, description, mcc, desc_lower) ==
  IF is_positive
  THEN (IF anyIn(TRANSFER_OUT_KEYWORDS, desc_lower) THEN Cat(<<1055,1077,1088,1077,1082,1072,1079,32,40,1110,1085,1096,1077,41>> (* Переказ (інше) *), "transfer")
        ELSE IF anyIn(<<<<1092,1088,1110,1083,1072,1085,1089>> (* фріланс *), <<102,114,101,101,108,97,110,99,101>> (* freelance *), <<117,112,119,111,114,107>> (* upwork *)>>, desc_lower)
        THEN Cat(<<1060,1088,1110,1083,1072,1085,1089>> (* Фріланс *), "income")
        ELSE credited(categorize(description, mcc)))
  ELSE debited(categorize(description, mcc))

\* the branches of the sign: a positive amount is an income or a transfer, any
\* other amount is no income
by_sign(is_positive, description, mcc, desc_lower) ==
  IF is_positive
  THEN (IF anyIn(TRANSFER_OUT_KEYWORDS, desc_lower) THEN Cat(<<1055,1077,1088,1077,1082,1072,1079,32,40,1110,1085,1096,1077,41>> (* Переказ (інше) *), "transfer")
        ELSE IF anyIn(<<<<1079,1072,1088,1087,1083,1072,1090,1072>> (* зарплата *), <<1079,1087>> (* зп *), <<115,97,108,97,114,121>> (* salary *), <<1072,1074,1072,1085,1089>> (* аванс *)>>, desc_lower)
        THEN Cat(<<1047,1072,1088,1087,1083,1072,1090,1072>> (* Зарплата *), "income")
        ELSE IF anyIn(<<<<1092,1088,1110,1083,1072,1085,1089>> (* фріланс *), <<102,114,101,101,108,97,110,99,101>> (* freelance *), <<117,112,119,111,114,107>> (* upwork *)>>, desc_lower)
        THEN Cat(<<1060,1088,1110,1083,1072,1085,1089>> (* Фріланс *), "income")
        ELSE credited(categorize(description, mcc)))
  ELSE debited(categorize(description, mcc))

classified(is_positive, description, mcc, desc_lower) ==
  IF _is_person_name(description) THEN Cat(<<1055,1077,1088,1077,1082,1072,1079,32,40,1083,1102,1076,1080,1085,1110,41>> (* Переказ (людині) *), "transfer")
  ELSE IF mcc \in ALWAYS_TRANSFER_MCC THEN always_transfer(is_positive, mcc, desc_lower)
  ELSE by_sign(is_positive, description, mcc, desc_lower)

_classify_transaction(raw_amount, description, mcc) ==
  classified(FPos0(raw_amount), description, mcc, lower(description))

\* ------------------------------------------------------------------ parse_pdf

\* pdf.pages is empty
NoPage == <<-3>>

\* the dict that _process_raw_rows appends for an extracted row
pdf_row(parsed, cats, b) ==
  resolved(parsed, _classify_transaction(parsed.amount, parsed.description, parsed.mcc),
           cats, b, FNeg0(parsed.amount))

\* the rows appended for the extracted rows that pass the threshold
out_rows(kept, b, cats) == [i \in 1..Len(kept) |-> pdf_row(kept[i], cats, b)]

\* _process_raw_rows without the count of the rows below the threshold
_process_raw_rows_uncounted(raws, total_skipped, b, cats) ==
  [rows |-> out_rows(SelectSeq(raws, LAMBDA p : ~FBelowMin(fabs(p.amount))), b, cats),
   skipped |-> total_skipped]

\* the rows of raws at or above the threshold are emitted, the others counted
_process_raw_rows(raws, total_skipped, b, cats) ==
  [rows |-> out_rows(SelectSeq(raws, LAMBDA p : ~FBelowMin(fabs(p.amount))), b, cats),
   skipped |-> total_skipped
                 + Cardinality({i \in 1..Len(raws) : FBelowMin(fabs(raws[i].amount))})]

\* the tables of a page: the ones the ruling lines give and, when there are
\* none, the ones the text alignment gives
page_tables(page) == IF page.lines # <<>> THEN page.lines ELSE page.text

NoRows == [rows |-> <<>>, skipped |-> 0]

table_rows(b, tbl) ==
  IF tbl = <<>> THEN NoRows
  ELSE IF b = ABANK
  THEN (IF _is_abank_table(tbl) THEN _extract_abank_rows(tbl) ELSE NoRows)
  ELSE (IF _is_monobank_table(tbl) THEN _extract_monobank_rows(tbl) ELSE NoRows)

added(acc, got) == [rows |-> acc.rows \o got.rows, skipped |-> acc.skipped + got.skipped]

\* the loop over the tables of a page
RECURSIVE tables_rows(_, _, _)
tables_rows(b, tables, acc) ==
  IF tables = <<>> THEN acc
  ELSE tables_rows(b, Tail(tables), added(acc, table_rows(b, Head(tables))))

\* pdf_bank without the second name of A-Bank
pdf_bank_one_abank_name(text_lower) ==
  IF IsIn(<<109,111,110,111,98,97,110,107>> (* monobank *), text_lower) \/ IsIn(<<1091,1085,1110,1074,1077,1088,1089,1072,1083,32,1073,1072,1085,1082>> (* універсал банк *), text_lower)
     \/ IsIn(<<117,110,105,118,101,114,115,97,108,32,98,97,110,107>> (* universal bank *), text_lower)
  THEN MONO
  ELSE IF IsIn(<<1072,45,1073,1072,1085,1082>> (* а-банк *), text_lower) THEN ABANK
  ELSE "unknown"

\* the bank that the text of page 1 names
pdf_bank(text_lower) ==
  IF IsIn(<<109,111,110,111,98,97,110,107>> (* monobank *), text_lower) \/ IsIn(<<1091,1085,1110,1074,1077,1088,1089,1072,1083,32,1073,1072,1085,1082>> (* універсал банк *), text_lower)
     \/ IsIn(<<117,110,105,118,101,114,115,97,108,32,98,97,110,107>> (* universal bank *), text_lower)
  THEN MONO
  ELSE IF IsIn(<<1072,45,1073,1072,1085,1082>> (* а-банк *), text_lower) \/ IsIn(<<1072,1082,1094,1077,1085,1090,45,1073,1072,1085,1082>> (* акцент-банк *), text_lower) THEN ABANK
  ELSE "unknown"

routed(b) ==
  IF b = "unknown"
  THEN pc' = "raised" /\ error' = "ValueError" /\ UNCHANGED bank
  ELSE pc' = "pdf_pages" /\ bank' = b /\ UNCHANGED error

\* parse_pdf up to the call of the bank's parser: pdf.pages[0] is read and the
\* bank decided from its text
parse_pdf_open ==
  /\ pc = "pdf_open"
  /\ IF page1 = NoPage
     THEN pc' = "raised" /\ error' = "IndexError" /\ UNCHANGED bank
     ELSE routed(pdf_bank(lower(IF page1 = None THEN <<>> ELSE page1)))
  /\ UNCHANGED <<document, this_page, confirmation, rows, skipped, consumed, raw_rows, call>>

paged(got) ==
  /\ raw_rows' = raw_rows \o got.rows
  /\ skipped' = skipped + got.skipped

\* one turn of the loop over pdf.pages of _parse_abank_pdf and
\* _parse_monobank_pdf, on a page with these tables
parse_pdf_page(page) ==
  /\ pc = "pdf_pages"
  /\ consumed' = consumed + 1
  /\ paged(tables_rows(bank, page_tables(page), NoRows))
  /\ this_page' = page
  /\ UNCHANGED <<pc, document, confirmation, bank, rows, error, call>>

returned(result) ==
  /\ rows' = result.rows
  /\ skipped' = result.skipped

\* the pages are exhausted: the empty result when no row was extracted,
\* _process_raw_rows otherwise
parse_pdf_return ==
  /\ pc = "pdf_pages"
  /\ consumed >= 1
  /\ pc' = "done"
  /\ IF raw_rows = <<>> THEN UNCHANGED <<rows, skipped>>
     ELSE returned(_process_raw_rows(raw_rows, skipped, bank, categories))
  /\ UNCHANGED <<document, this_page, confirmation, bank, consumed, raw_rows, error, call>>

\* ------------------------------------------------------------------ the functions, called alone

Descriptions == {
  <<>> (*  *),
  <<1086,1073,1084,1110,1085,32,1074,1072,1083,1102,1090>> (* обмін валют *),
  <<1087,1077,1088,1077,1082,1072,1079,32,1074,1110,1076,32,1076,1088,1091,1075,1072>> (* переказ від друга *),
  <<1089,1110,1083,1100,1087,1086>> (* сільпо *),
  <<83,105,108,112,111,32,77,97,114,107,101,116>> (* Silpo Market *),
  <<1079,1072,1088,1087,1083,1072,1090,1072>> (* зарплата *),
  <<1047,1072,1088,1087,1083,1072,1090,1072,32,1079,1072,32,1089,1110,1095,1077,1085,1100>> (* Зарплата за січень *),
  <<1079,1087>> (* зп *),
  <<115,97,108,97,114,121>> (* salary *),
  <<1072,1074,1072,1085,1089>> (* аванс *),
  <<1085,1072,1088,1072,1093,1091,1074,1072,1085,1085,1103,32,1079,1087>> (* нарахування зп *),
  <<1074,1080,1087,1083,1072,1090,1072,32,1079,1087>> (* виплата зп *),
  <<1079,1072,1088,1086,1073,1110,1090,1085,1072,32,1087,1083,1072,1090,1072>> (* заробітна плата *),
  <<1079,1072,1088,1086,1073,1110,1090,1085,1103,32,1087,1083,1072,1090,1072>> (* заробітня плата *),
  <<1079,1072,1088,1087,1083,1072,1090,1072,32,1082,1072,1074,1072>> (* зарплата кава *),
  <<1079,1072,1088,1086,1073,1110,1090,1085,1072,32,1087,1083,1072,1090,1072,32,117,112,119,111,114,107>> (* заробітна плата upwork *),
  <<1079,1072,1088,1087,1083,1072,1090,1072,32,1076,1077,1087,1086,1079,1080,1090>> (* зарплата депозит *),
  <<1076,1077,1087,1086,1079,1080,1090>> (* депозит *),
  <<117,112,119,111,114,107>> (* upwork *),
  <<1074,1110,1076,32,1084,1072,1084,1080>> (* від мами *),
  <<1030,1074,1072,1085,32,1055,1077,1090,1088,1077,1085,1082,1086>> (* Іван Петренко *),
  <<1047,1072,1088,1087,1083,1072,1090,1072,32,1040,1074,1072,1085,1089>> (* Зарплата Аванс *),
  <<1087,1086,1074,1077,1088,1085,1077,1085,1085,1103,32,1073,1086,1088,1075,1091,32,50,48,48>> (* повернення боргу 200 *),
  <<1087,1086,1074,1077,1088,1085,1077,1085,1085,1103,32,1073,1086,1088,1075,1091,32,1079,1072,32,1089,1091,1096,1110>> (* повернення боргу за суші *),
  <<1087,1086,1076,1110,1083,32,1088,1072,1093,1091,1085,1082,1091,32,1082,1072,1092,1077>> (* поділ рахунку кафе *),
  <<83,112,108,105,116,32,99,104,101,99,107,32,117,98,101,114>> (* Split check uber *),
  <<1087,1086,1076,1110,1083>> (* поділ *),
  <<1086,1087,1083,1072,1090,1072,32,49,50,51,52,53>> (* оплата 12345 *)
}

Mccs == {<<>> (*  *), <<53,52,49,49>> (* 5411 *), <<32,53,52,49,49,32>> (*  5411  *), <<54,48,49,49>> (* 6011 *), <<54,48,53,49>> (* 6051 *), <<52,56,50,57>> (* 4829 *), <<57,57,57,57>> (* 9999 *)}

Amounts == {Num(TRUE, 300000), Num(FALSE, 5000000), NaN}

CAT_MIXED == <<
  [id |-> "m1", name |-> <<1047,1072,1088,1087,1083,1072,1090,1072>> (* Зарплата *), type |-> "expense"],
  [id |-> "m2", name |-> <<32,1047,1040,1056,1055,1051,1040,1058,1040,32>> (*  ЗАРПЛАТА  *), type |-> "income"],
  [id |-> "m3", name |-> <<1050,1072,1092,1077,32,47,32,1056,1077,1089,1090,1086,1088,1072,1085,1080>> (* Кафе / Ресторани *), type |-> "expense"],
  [id |-> "m4", name |-> <<>> (*  *), type |-> "transfer"],
  [id |-> "m5", name |-> <<1055,1077,1088,1077,1082,1072,1079>> (* Переказ *), type |-> "income"]
>>

\* a catalog with a name that holds another, and with names that share
\* tokens with a query that none of them holds
CAT_STAGES == <<
  [id |-> "s1", name |-> <<1050,1072,1092,1077,32,1090,1072,32,1088,1077,1089,1090,1086,1088,1072,1085,1080>> (* Кафе та ресторани *), type |-> "expense"],
  [id |-> "s2", name |-> <<1050,1072,1092,1077>> (* Кафе *), type |-> "expense"],
  [id |-> "s3", name |-> <<1050,1072,1092,1077,32,47,32,1041,1072,1088,1080>> (* Кафе / Бари *), type |-> "income"],
  [id |-> "s4", name |-> <<1050,1072,1092,1077,32,47,32,1055,1088,1086,1076,1091,1082,1090,1080,32,47,32,1041,1072,1088,1080>> (* Кафе / Продукти / Бари *), type |-> "income"],
  [id |-> "s5", name |-> <<1055,1088,1086,1076,1091,1082,1090,1080,32,47,32,1041,1072,1088,1080,32,47,32,1050,1072,1092,1077>> (* Продукти / Бари / Кафе *), type |-> "income"]
>>

Catalogs == {<<>>, CAT_FULL, CAT_MIXED, CAT_STAGES}

\* the names asked for: the categories of the rule tables and of the
\* corrections, and names that are in neither
Names ==
  {KEYWORD_RULES[i].cat : i \in 1..Len(KEYWORD_RULES)}
  \cup {MCC_TO_CATEGORY[m].cat : m \in DOMAIN MCC_TO_CATEGORY}
  \cup {FALLBACK.cat, <<1030,1085,1096,1080,1081,32,1076,1086,1093,1110,1076>> (* Інший дохід *), <<1055,1077,1088,1077,1082,1072,1079,32,40,1110,1085,1096,1077,41>> (* Переказ (інше) *), <<1055,1077,1088,1077,1082,1072,1079,32,40,1083,1102,1076,1080,1085,1110,41>> (* Переказ (людині) *), <<1060,1088,1110,1083,1072,1085,1089>> (* Фріланс *),
        <<1056,1077,1089,1090,1086,1088,1072,1085,1080>> (* Ресторани *), <<1055,1088,1086,1076,1091,1082,1090,1080,32,47,32,1050,1072,1092,1077>> (* Продукти / Кафе *), <<1050,1072,1092,1077>> (* Кафе *), <<120,121,122>> (* xyz *), <<>> (*  *)}

Types == {"income", "expense", "transfer"}

CallCategorize ==
  /\ pc = "fn"
  /\ pc' = "called"
  /\ \E d \in Descriptions, m \in Mccs :
       call' = [fn |-> "categorize", description |-> d, mcc |-> m, result |-> categorize(d, m)]
  /\ UNCHANGED <<document, this_page, confirmation, bank, rows, skipped, consumed, raw_rows, error>>

\* the categorization of parse_csv: categorize and the sign correction
CallCsvCategory ==
  /\ pc = "fn"
  /\ pc' = "called"
  /\ \E a \in Amounts, d \in Descriptions, m \in Mccs :
       call' = [fn |-> "csv_category", amount |-> a, description |-> d, mcc |-> m,
                result |-> csv_category(a, d, m)]
  /\ UNCHANGED <<document, this_page, confirmation, bank, rows, skipped, consumed, raw_rows, error>>

CallClassifyTransaction ==
  /\ pc = "fn"
  /\ pc' = "called"
  /\ \E a \in Amounts, d \in Descriptions, m \in Mccs :
       call' = [fn |-> "_classify_transaction", amount |-> a, description |-> d, mcc |-> m,
                result |-> _classify_transaction(a, d, m)]
  /\ UNCHANGED <<document, this_page, confirmation, bank, rows, skipped, consumed, raw_rows, error>>

CallFindCategoryId ==
  /\ pc = "fn"
  /\ pc' = "called"
  /\ \E cats \in Catalogs, name \in Names, tx_type \in Types :
       call' = [fn |-> "find_category_id", categories |-> cats, name |-> name, tx_type |-> tx_type,
                result |-> find_category_id(cats, name, tx_type)]
  /\ UNCHANGED <<document, this_page, confirmation, bank, rows, skipped, consumed, raw_rows, error>>


\* the header rows handed to detect_bank: the headers and the documented
\* layouts of the statements drawn, headers that satisfy one rule alone, and
\* headers that satisfy the rules of two banks
HeaderLists ==
  Headers \cup LayoutHeaders \cup {
    <<<<1044,1072,1090,1072,32,1110,32,1095,1072,1089,32,1086,1087,1077,1088,1072,1094,1110,1111>> (* Дата і час операції *), <<77,67,67>> (* MCC *), <<1057,1091,1084,1072>> (* Сума *)>>,
    <<<<32,109,99,99,32>> (*  mcc  *), <<1044,1045,1058,1040,1051,1030,32,1054,1055,1045,1056,1040,1062,1030,1031>> (* ДЕТАЛІ ОПЕРАЦІЇ *)>>,
    <<<<77,67,67>> (* MCC *), <<1044,1077,1090,1072,1083,1110,32,1086,1087,1077,1088,1072,1094,1110,1111>> (* Деталі операції *), <<1050,1072,1090,1077,1075,1086,1088,1110,1103>> (* Категорія *)>>,
    <<<<1044,1072,1090,1072,32,1110,32,1095,1072,1089,32,1086,1087,1077,1088,1072,1094,1110,1111>> (* Дата і час операції *), <<1054,1087,1080,1089,32,1086,1087,1077,1088,1072,1094,1110,1111>> (* Опис операції *)>>,
    <<<<1044,1077,1090,1072,1083,1110,32,1086,1087,1077,1088,1072,1094,1110,1111>> (* Деталі операції *), <<1050,1072,1090,1077,1075,1086,1088,1110,1103>> (* Категорія *)>>,
    <<<<1055,1088,1080,1079,1085,1072,1095,1077,1085,1085,1103,32,1087,1083,1072,1090,1077,1078,1091>> (* Призначення платежу *)>>,
    <<<<1055,1088,1080,1079,1085,1072,1095,1077,1085,1085,1103,32,1087,1083,1072,1090,1077,1078,1091>> (* Призначення платежу *), <<1042,1080,1090,1088,1072,1090,1080>> (* Витрати *)>>,
    <<<<79,112,101,114,97,116,105,111,110,32,68,97,116,101>> (* Operation Date *), <<1044,1072,1090,1072,32,1076,1086,1082,1091,1084,1077,1085,1090,1091>> (* Дата документу *), <<1055,1088,1080,1079,1085,1072,1095,1077,1085,1085,1103>> (* Призначення *)>>,
    <<<<68,111,99,117,109,101,110,116,32,65,109,111,117,110,116>> (* Document Amount *), <<65,109,111,117,110,116>> (* Amount *)>>,
    <<<<1054,1087,1077,1088,1072,1094,1110,1103>> (* Операція *), <<65,109,111,117,110,116>> (* Amount *)>>,
    <<<<65,109,111,117,110,116>> (* Amount *), <<68,97,116,101>> (* Date *), <<68,101,115,99,114,105,112,116,105,111,110>> (* Description *)>>,
    <<<<1044,1072,1090,1072,32,1076,1086,1082,1091,1084,1077,1085,1090,1091>> (* Дата документу *), <<1055,1088,1080,1079,1085,1072,1095,1077,1085,1085,1103>> (* Призначення *), <<1055,1088,1080,1093,1110,1076>> (* Прихід *)>>,
    <<<<1056,1072,1093,1091,1085,1086,1082,32,1055,1059,1052,1041>> (* Рахунок ПУМБ *), <<1057,1091,1084,1072>> (* Сума *)>>,
    <<<<80,85,77,66,32,97,99,99,111,117,110,116>> (* PUMB account *), <<1042,1080,1090,1088,1072,1090,1080>> (* Витрати *)>>,
    <<<<1055,1088,1080,1093,1110,1076>> (* Прихід *)>>,
    <<<<1042,1080,1090,1088,1072,1090,1080,44,32,1075,1088,1085>> (* Витрати, грн *)>>,
    <<<<1056,1072,1093,1091,1085,1086,1082,32,1040,45,1041,1072,1085,1082>> (* Рахунок А-Банк *)>>,
    <<<<65,66,97,110,107,32,99,97,114,100>> (* ABank card *)>>,
    <<<<77,67,67>> (* MCC *)>>
  }

CallDetectBank ==
  /\ pc = "fn"
  /\ pc' = "called"
  /\ \E headers \in HeaderLists :
       call' = [fn |-> "detect_bank", headers |-> headers, result |-> detect_bank(headers)]
  /\ UNCHANGED <<document, this_page, confirmation, bank, rows, skipped, consumed, raw_rows, error>>

\* the cells drawn for the two amount columns of a two-column layout
OutCells == {<<>> (*  *), <<50,53,48,46,48,48>> (* 250.00 *), <<48>> (* 0 *), <<45,50,53,48>> (* -250 *), <<97,98,99>> (* abc *)}

InCells == {<<>> (*  *), <<49,48,48,44,53>> (* 100,5 *), <<48,46,48,48>> (* 0.00 *), <<45,49,48,48>> (* -100 *)}

\* the sample row of the layout with these cells in the column of the money
\* going out and in the column of the money coming in
TwoColumnCells(names, out_cell, in_cell) ==
  [i \in 1..Len(names) |->
     IF Choices(names[i]) = DebitCells THEN out_cell
     ELSE IF Choices(names[i]) = CreditCells THEN in_cell
     ELSE Sample(names[i])]

TwoColumnLayouts == {<<L_OSCHADBANK, OSCHADBANK>>, <<L_PUMB, PUMB>>, <<L_ABANK, ABANK>>}

\* a row extractor of a two-column bank, on a row of the bank's layout
CallParseRow ==
  /\ pc = "fn"
  /\ pc' = "called"
  /\ \E l \in TwoColumnLayouts, out_cell \in OutCells, in_cell \in InCells :
       call' = [fn |-> "parse_row", bank |-> l[2], debit |-> out_cell, credit |-> in_cell,
                result |-> parse_row(l[2], DictRow(l[1], TwoColumnCells(l[1], out_cell, in_cell)))]
  /\ UNCHANGED <<document, this_page, confirmation, bank, rows, skipped, consumed, raw_rows, error>>

\* the cells handed to _parse_amount; NBSP is U+00A0
NBSP == <<160>>

AmountTexts == {
  None,
  <<>> (*  *),
  <<32,32,32>> (*     *),
  <<49,32,53,48,48,44,48,48>> (* 1 500,00 *),
  <<49>> (* 1 *) \o NBSP \o <<53,48,48,44,48,48>> (* 500,00 *),
  <<32,49,50,32>> (*  12  *),
  <<45,49,53,48,48,46,53,48>> (* -1500.50 *),
  <<49,44,50,51,52,44,53,54,55>> (* 1,234,567 *),
  <<49,44,50,51,52,46,53>> (* 1,234.5 *),
  <<49,44,53>> (* 1,5 *),
  <<49,44,50,44,51>> (* 1,2,3 *),
  <<44>> (* , *),
  <<49,46,50,46,51>> (* 1.2.3 *),
  <<49,50,44,53,48,32,1075,1088,1085>> (* 12,50 грн *),
  <<43,55>> (* +7 *),
  <<49,101,51>> (* 1e3 *),
  <<49,95,48,48,48>> (* 1_000 *),
  <<97,98,99>> (* abc *),
  <<110,97,110>> (* nan *)
}

CallParseAmount ==
  /\ pc = "fn"
  /\ pc' = "called"
  /\ \E raw \in AmountTexts :
       call' = [fn |-> "_parse_amount", raw |-> raw, result |-> _parse_amount(raw)]
  /\ UNCHANGED <<document, this_page, confirmation, bank, rows, skipped, consumed, raw_rows, error>>

\* the layout of Raiffeisen with the flag column under a name that the
\* extractor looks up
L_RAIFFEISEN_KEYS ==
  <<<<79,80,69,82,65,84,73,79,78,32,68,65,84,69>> (* OPERATION DATE *), <<68,79,67,85,77,69,78,84,32,65,77,79,85,78,84>> (* DOCUMENT AMOUNT *), <<84,82,65,78,83,65,67,84,73,79,78,32,68,69,83,67,82,73,80,84,73,79,78>> (* TRANSACTION DESCRIPTION *), <<68,69,66,73,84,47,67,82,69,68,73,84>> (* DEBIT/CREDIT *)>>

FlagCells == {<<>> (*  *), <<68>> (* D *), <<67>> (* C *), <<68,101,98,105,116>> (* Debit *), <<99,114,101,100,105,116>> (* credit *)}

FlaggedAmountCells == {<<51,48,48>> (* 300 *), <<45,51,48,48>> (* -300 *)}

\* the row extractor of Raiffeisen, on a row with these cells in the amount
\* column and in the flag column, the last of the layout
CallParseRowRaiffeisen ==
  /\ pc = "fn"
  /\ pc' = "called"
  /\ \E names \in {L_RAIFFEISEN, L_RAIFFEISEN_KEYS}, amount \in FlaggedAmountCells,
        flag \in FlagCells :
       call' = [fn |-> "parse_row_raiffeisen", headers |-> names, amount |-> amount,
                flag |-> flag,
                result |-> parse_row_raiffeisen(
                  DictRow(names, <<<<48,49,46,48,50,46,50,48,50,52>> (* 01.02.2024 *), amount, <<1089,1110,1083,1100,1087,1086>> (* сільпо *), flag>>))]
  /\ UNCHANGED <<document, this_page, confirmation, bank, rows, skipped, consumed, raw_rows, error>>

\* ---------------------------------------------------------------------------
\* The confirmation step of an import: _show_preview stores the rows in the
\* user's FSM row and shows the two buttons, handle_csv_confirm answers a
\* press. Polling hands every update to a task of its own, and SupabaseStorage
\* reads and writes the row one request at a time, so the handler's awaits are
\* the points where callbacks interleave.

MaxCallbacks == 2

Callback == 1..MaxCallbacks

Buttons == {"csv_confirm_yes", "csv_confirm_no"}

NoFsm == [state |-> "none", data |-> "empty"]

NoCallbacks == [t \in Callback |-> [pc |-> "unsent", data |-> "none", raw |-> "empty"]]

at(t, where) == callbacks[t].pc = where

moved(t, where) == callbacks' = [callbacks EXCEPT ![t].pc = where]

parser_state == <<document, this_page, bank, rows, skipped, consumed, raw_rows, error, call>>

\* SupabaseStorage.set_state: the state column of the row
set_state(state) == fsm' = [fsm EXCEPT !.state = state]

\* SupabaseStorage.set_data: the data column of the row
set_data(data) == fsm' = [fsm EXCEPT !.data = data]

\* _show_preview, state.set_state(CSVStates.waiting_for_confirm)
show_preview_set_state ==
  /\ pc = "preview"
  /\ set_state("waiting_for_confirm")
  /\ pc' = "preview_data"
  /\ UNCHANGED <<parser_state, callbacks, inserted>>

\* _show_preview, state.update_data(pending_csv=...) and the keyboard
show_preview_update_data ==
  /\ pc = "preview_data"
  /\ set_data("pending_csv")
  /\ pc' = "previewed"
  /\ UNCHANGED <<parser_state, callbacks, inserted>>

\* the buttons are on screen until a handler has deleted the message
keyboard_shown ==
  /\ pc = "previewed"
  /\ \A t \in Callback : callbacks[t].pc \in {"unsent", "arrived", "unhandled", "delete"}

\* the user presses a button: a callback query arrives
press(t, button) ==
  /\ keyboard_shown
  /\ at(t, "unsent")
  /\ callbacks' = [callbacks EXCEPT ![t].pc = "arrived", ![t].data = button]
  /\ UNCHANGED <<pc, parser_state, fsm, inserted>>

\* the filter CSVStates.waiting_for_confirm of handle_csv_confirm: the state
\* is read from the row, the handler runs when it matches
state_filter(t) ==
  /\ at(t, "arrived")
  /\ moved(t, IF fsm.state = "waiting_for_confirm" THEN "delete" ELSE "unhandled")
  /\ UNCHANGED <<pc, parser_state, fsm, inserted>>

\* handle_csv_confirm, callback.message.delete() and the test of the button
delete_message(t) ==
  /\ at(t, "delete")
  /\ moved(t, IF callbacks[t].data = "csv_confirm_no" THEN "clear_state" ELSE "get_data")
  /\ UNCHANGED <<pc, parser_state, fsm, inserted>>

\* handle_csv_confirm, data = await state.get_data()
get_data(t) ==
  /\ at(t, "get_data")
  /\ callbacks' = [callbacks EXCEPT ![t].pc = "clear_state", ![t].raw = fsm.data]
  /\ UNCHANGED <<pc, parser_state, fsm, inserted>>

\* state.clear(), its first request: set_state(None)
clear_state(t) ==
  /\ at(t, "clear_state")
  /\ set_state("none")
  /\ moved(t, "clear_data")
  /\ UNCHANGED <<pc, parser_state, inserted>>

after_clear(c) ==
  IF c.data = "csv_confirm_no" THEN "cancelled"
  ELSE IF c.raw = "empty" THEN "lost"
  ELSE "send_message"

\* state.clear(), its second request: set_data({}); then the cancel branch
\* returns, and the confirm branch tests the rows it read
clear_data(t) ==
  /\ at(t, "clear_data")
  /\ set_data("empty")
  /\ moved(t, after_clear(callbacks[t]))
  /\ UNCHANGED <<pc, parser_state, inserted>>

\* handle_csv_confirm, json.loads and the status message
send_message(t) ==
  /\ at(t, "send_message")
  /\ moved(t, "bulk_insert")
  /\ UNCHANGED <<pc, parser_state, fsm, inserted>>

\* handle_csv_confirm, repo.bulk_insert_transactions(db, rows) and the report
bulk_insert_transactions(t) ==
  /\ at(t, "bulk_insert")
  /\ inserted' = inserted + 1
  /\ moved(t, "saved")
  /\ UNCHANGED <<pc, parser_state, fsm>>

\* one step of one callback query
handle_csv_confirm(t) ==
  \/ state_filter(t)
  \/ delete_message(t)
  \/ get_data(t)
  \/ clear_state(t)
  \/ clear_data(t)
  \/ send_message(t)
  \/ bulk_insert_transactions(t)
\* ------------------------------------------------------------------ the pdf files drawn

\* the text of page 1
Page1Texts == {
  NoPage,
  None,
  <<>> (*  *),
  <<1042,1080,1087,1080,1089,1082,1072,32,109,111,110,111,98,97,110,107>> (* Виписка monobank *),
  <<1040,1058,32,1059,1053,1030,1042,1045,1056,1057,1040,1051,32,1041,1040,1053,1050>> (* АТ УНІВЕРСАЛ БАНК *),
  <<85,110,105,118,101,114,115,97,108,32,66,97,110,107,44,32,1040,45,1041,1072,1085,1082>> (* Universal Bank, А-Банк *),
  <<1040,1058,32,1040,45,1041,1040,1053,1050>> (* АТ А-БАНК *),
  <<1040,1082,1094,1077,1085,1090,45,1041,1072,1085,1082>> (* Акцент-Банк *),
  <<1055,1088,1080,1074,1072,1090,1041,1072,1085,1082>> (* ПриватБанк *)
}

\* date, description, MCC and amount cells of the table rows drawn
PdfCells == {
  <<<<51,49,46,48,49,46,50,48,50,54,10,48,56,58,52,56>> (* 31.01.2026\n08:48 *), <<1089,1110,1083,1100,1087,1086>> (* сільпо *), <<53,52,49,49>> (* 5411 *), <<45,51,48,48,46,48,48>> (* -300.00 *)>>,
  <<<<51,49,46,48,49,46,50,48,50,54,10,48,56,58,52,56>> (* 31.01.2026\n08:48 *), <<1030,1074,1072,1085,32,1055,1077,1090,1088,1077,1085,1082,1086>> (* Іван Петренко *), <<>> (*  *), <<45,51,48,48>> (* -300 *)>>,
  <<<<51,49,46,48,49,46,50,48,50,54,10,48,56,58,52,56>> (* 31.01.2026\n08:48 *), <<1030,1074,1072,1085,32,1055,1077,1090,1088,1077,1085,1082,1086>> (* Іван Петренко *), <<53,52,49,49>> (* 5411 *), <<45,51,48,48>> (* -300 *)>>,
  <<<<51,49,46,48,49,46,50,48,50,54,10,48,56,58,52,56>> (* 31.01.2026\n08:48 *), <<1030,1074,1072,1085,32,1055,1077,1090,1088,1077,1085,1082,1086>> (* Іван Петренко *), <<54,48,49,49>> (* 6011 *), <<45,51,48,48>> (* -300 *)>>,
  <<<<51,49,46,48,49,46,50,48,50,54,10,48,56,58,52,56>> (* 31.01.2026\n08:48 *), <<1079,1072,1088,1087,1083,1072,1090,1072>> (* зарплата *), <<>> (*  *), <<53,32,48,48,48,46,48,48>> (* 5 000.00 *)>>,
  <<<<51,49,46,48,49,46,50,48,50,54,10,48,56,58,52,56>> (* 31.01.2026\n08:48 *), <<1079,1072,1088,1087,1083,1072,1090,1072,32,1076,1077,1087,1086,1079,1080,1090>> (* зарплата депозит *), <<>> (*  *), <<53,48,48,48>> (* 5000 *)>>,
  <<<<51,49,46,48,49,46,50,48,50,54,10,48,56,58,52,56>> (* 31.01.2026\n08:48 *), <<1079,1072,1088,1087,1083,1072,1090,1072>> (* зарплата *), <<>> (*  *), <<45,51,48,48>> (* -300 *)>>,
  <<<<51,49,46,48,49,46,50,48,50,54,10,48,56,58,52,56>> (* 31.01.2026\n08:48 *), <<1089,1110,1083,1100,1087,1086>> (* сільпо *), <<>> (*  *), <<53,48,48,48>> (* 5000 *)>>,
  <<<<51,49,46,48,49,46,50,48,50,54,10,48,56,58,52,56>> (* 31.01.2026\n08:48 *), <<1089,1110,1083,1100,1087,1086>> (* сільпо *), <<54,48,49,49>> (* 6011 *), <<53,48,48,48>> (* 5000 *)>>,
  <<<<51,49,46,48,49,46,50,48,50,54,10,48,56,58,52,56>> (* 31.01.2026\n08:48 *), <<1089,1110,1083,1100,1087,1086>> (* сільпо *), <<>> (*  *), <<110,97,110>> (* nan *)>>,
  <<<<51,49,46,48,49,46,50,48,50,54,10,48,56,58,52,56>> (* 31.01.2026\n08:48 *), <<1089,1110,1083,1100,1087,1086>> (* сільпо *), <<>> (*  *), <<48,46,48,48,53>> (* 0.005 *)>>,
  <<<<51,49,46,48,49,46,50,48,50,54,10,48,56,58,52,56>> (* 31.01.2026\n08:48 *), <<1089,1110,1083,1100,1087,1086>> (* сільпо *), <<53,52,49,49>> (* 5411 *), <<97,98,99>> (* abc *)>>,
  <<<<50,48,50,54,45,48,49,45,51,49>> (* 2026-01-31 *), <<1089,1110,1083,1100,1087,1086>> (* сільпо *), <<53,52,49,49>> (* 5411 *), <<45,51,48,48>> (* -300 *)>>,
  <<<<51,49,46,48,50,46,50,48,50,54>> (* 31.02.2026 *), <<1089,1110,1083,1100,1087,1086>> (* сільпо *), <<53,52,49,49>> (* 5411 *), <<45,51,48,48>> (* -300 *)>>,
  <<<<51,49,46,48,49,46,50,48,50,54>> (* 31.01.2026 *), <<1,2,3>> (* \x01\x02\x03 *), <<53,52,49,49>> (* 5411 *), <<45,51,48,48>> (* -300 *)>>
}

\* a row of an A-Bank table, of eleven cells
AbankLine(c) == <<c[1], <<>> (*  *), c[2], c[3], c[4], <<85,65,72>> (* UAH *), None, None, None, None, None>>

\* a row of a Monobank table, of ten cells
MonoLine(c) == <<c[1], c[2], c[3], c[4], c[4], <<85,65,72>> (* UAH *), None, None, None, None>>

Line(b, c) == IF b = ABANK THEN AbankLine(c) ELSE MonoLine(c)

HeadLine(b) ==
  IF b = ABANK
  THEN <<<<1044,1072,1090,1072>> (* Дата *), <<1063,1072,1089>> (* Час *), <<1044,1077,1090,1072,1083,1110>> (* Деталі *), <<77,67,67>> (* MCC *), <<1057,1091,1084,1072>> (* Сума *), <<1042,1072,1083,1102,1090,1072>> (* Валюта *), <<>> (*  *), <<>> (*  *), <<>> (*  *), <<>> (*  *), <<>> (*  *)>>
  ELSE <<<<1044,1072,1090,1072,32,105,32,1095,1072,1089,10,1086,1087,1077,1088,1072,1094,1110,1111>> (* Дата i час\nоперації *), <<1044,1077,1090,1072,1083,1110,32,1086,1087,1077,1088,1072,1094,1110,1111>> (* Деталі операції *), <<77,67,67>> (* MCC *), <<1057,1091,1084,1072>> (* Сума *), <<1057,1091,1084,1072>> (* Сума *), <<1042,1072,1083,1102,1090,1072>> (* Валюта *),
         <<>> (*  *), <<>> (*  *), <<>> (*  *), <<>> (*  *)>>

AnchorCells == <<<<51,49,46,48,49,46,50,48,50,54,10,48,56,58,52,56>> (* 31.01.2026\n08:48 *), <<1089,1110,1083,1100,1087,1086>> (* сільпо *), <<53,52,49,49>> (* 5411 *), <<45,51,48,48,46,48,48>> (* -300.00 *)>>

\* the tables drawn: one data row, and a row without MCC after a row with one
PdfTables(b) ==
  {<<HeadLine(b), Line(b, c)>> : c \in PdfCells}
  \cup {<<HeadLine(b), Line(b, AnchorCells), Line(b, c)>> : c \in {d \in PdfCells : d[3] = <<>>}}
  \cup {<<HeadLine(b), SubSeq(Line(b, AnchorCells), 1, 3)>>}

\* the pages drawn: a table found by the ruling lines; none found by them
\* and one by the text alignment; a table by the lines that is no statement
\* table, with one by the text alignment; an empty table; no table at all
PdfPages(b) ==
  {[lines |-> <<t>>, text |-> <<>>] : t \in PdfTables(b)}
  \cup {[lines |-> <<>>, text |-> <<<<HeadLine(b), Line(b, AnchorCells)>>>>],
        [lines |-> <<<<<<<<1041,1072,1083,1072,1085,1089>> (* Баланс *)>>, <<<<49,48,48,46,48,48>> (* 100.00 *)>>>>>>,
         text |-> <<<<HeadLine(b), Line(b, AnchorCells)>>>>],
        [lines |-> <<<<>>, <<HeadLine(b), Line(b, AnchorCells)>>>>, text |-> <<>>],
        [lines |-> <<>>, text |-> <<>>]}

\* the longest table drawn, header row included
MaxTableLen == 3

Pages == [b \in {MONO, ABANK} |-> PdfPages(b)]

\* ------------------------------------------------------------------ the import of a statement

\* the largest number of data rows of a CSV file and of pages of a PDF file
MaxRows == 2

\* a CSV file, a PDF file, or no file and a function called alone
Init ==
  /\ \/ doc = "csv" /\ pc = "csv_open" /\ header \in Headers \cup LayoutHeaders /\ page1 = NoPage
     \/ doc = "pdf" /\ pc = "pdf_open" /\ header = <<>> /\ page1 \in Page1Texts
     \/ doc = "none" /\ pc = "fn" /\ header = <<>> /\ page1 = NoPage
     \/ doc = "import" /\ pc = "preview" /\ header = <<>> /\ page1 = NoPage
  /\ categories = CAT_FULL
  /\ bank = "none"
  /\ rows = <<>>
  /\ skipped = 0
  /\ consumed = 0
  /\ raw_rows = <<>>
  /\ error = "none"
  /\ call = [fn |-> "none"]
  /\ this_page = [lines |-> <<>>, text |-> <<>>]
  /\ fsm = NoFsm
  /\ callbacks = NoCallbacks
  /\ inserted = 0

Next ==
  \/ parse_csv_open
  \/ (pc = "csv_rows" /\ consumed < MaxRows /\ \E cells \in DataRows[header] : parse_csv_row(cells))
  \/ parse_csv_return
  \/ parse_pdf_open
  \/ (pc = "pdf_pages" /\ consumed < MaxRows /\ \E page \in Pages[bank] : parse_pdf_page(page))
  \/ parse_pdf_return
  \/ CallCategorize
  \/ CallCsvCategory
  \/ CallClassifyTransaction
  \/ CallFindCategoryId
  \/ CallDetectBank
  \/ CallParseRow
  \/ CallParseAmount
  \/ CallParseRowRaiffeisen
  \/ show_preview_set_state
  \/ show_preview_update_data
  \/ \E t \in Callback, button \in Buttons : press(t, button)
  \/ \E t \in Callback : handle_csv_confirm(t)

Spec == Init /\ [][Next]_vars

\* ------------------------------------------------------------------ the amounts and types of the rows emitted

\* C1: in every row emitted, by parse_csv and by _process_raw_rows, amount is
\* the absolute value of the amount extracted and is at least 0.01
C1_AmountIsAbsoluteAndAtLeastMin ==
  \A i \in 1..Len(rows) :
    /\ FEq(rows[i].amount, fabs(rows[i].src_amount))
    /\ FAtLeastMin(rows[i].amount)

\* C2: parse_csv of a file with a header row never raises: every data row
\* read is emitted or counted in skipped
C2_ParseCsvNeverRaises ==
  (doc = "csv" /\ header # <<>>) => (pc # "raised" /\ consumed = Len(rows) + skipped)

\* C3: in every row emitted by parse_csv, an income was extracted with a
\* positive amount and an expense with a negative one
C3_CsvTypeAgreesWithSign ==
  doc = "csv" =>
    \A i \in 1..Len(rows) :
      /\ rows[i].type = "income" => FPos0(rows[i].src_amount)
      /\ rows[i].type = "expense" => FNeg0(rows[i].src_amount)

\* C4: in every row emitted by the PDF pipeline, is_outgoing says that the
\* amount extracted is negative, an income is not outgoing and an expense is
C4_PdfTypeAgreesWithOutgoing ==
  doc = "pdf" =>
    \A i \in 1..Len(rows) :
      /\ rows[i].is_outgoing = FNeg0(rows[i].src_amount)
      /\ rows[i].type = "income" => ~rows[i].is_outgoing
      /\ rows[i].type = "expense" => rows[i].is_outgoing

\* the categories that the rule tables give the type expense
ExpenseVocabulary ==
  {KEYWORD_RULES[i].cat : i \in {j \in 1..Len(KEYWORD_RULES) : KEYWORD_RULES[j].type = "expense"}}
  \cup {MCC_TO_CATEGORY[m].cat :
          m \in {n \in DOMAIN MCC_TO_CATEGORY : MCC_TO_CATEGORY[n].type = "expense"}}
  \cup {FALLBACK.cat}

\* C5: after the sign correction of either pipeline, an income never has a
\* category that the rule tables give the type expense: in the rows emitted,
\* and in what the two categorizations return for any amount, description
\* and MCC
C5_IncomeNeverExpenseCategory ==
  /\ \A i \in 1..Len(rows) :
       rows[i].type = "income" => rows[i].raw_category \notin ExpenseVocabulary
  /\ call.fn \in {"csv_category", "_classify_transaction"} =>
       (call.result.type = "income" => call.result.cat \notin ExpenseVocabulary)

\* a row is emitted as an income that the categorizer typed an expense
C5_Witness ==
  \E i \in 1..Len(rows) :
    /\ rows[i].type = "income"
    /\ categorize(rows[i].src_description, rows[i].mcc).type = "expense"

\* ------------------------------------------------------------------ the scenarios of the categorizers

\* C6: categorize of "повернення боргу 200" without MCC returns
\* ignore_in_stats true, with the category and the type of a keyword rule
\* that the description matches
C6_DebtReturnIsIgnored ==
  (call.fn = "categorize" /\ call.description = <<1087,1086,1074,1077,1088,1085,1077,1085,1085,1103,32,1073,1086,1088,1075,1091,32,50,48,48>> (* повернення боргу 200 *) /\ call.mcc = <<>>) =>
    /\ call.result.ignore
    /\ \E i \in 1..Len(KEYWORD_RULES) :
         /\ anyIn(KEYWORD_RULES[i].keywords, lower(call.description))
         /\ call.result.cat = KEYWORD_RULES[i].cat
         /\ call.result.type = KEYWORD_RULES[i].type

\* C7: a row of a PDF table, of either bank, whose description cell is a
\* person's full name is emitted as a transfer of the category
\* "Переказ (людині)", whatever its MCC cell holds
C7_PersonNameIsTransfer ==
  doc = "pdf" =>
    \A i \in 1..Len(rows) :
      _is_person_name(rows[i].cell_description) =>
        rows[i].type = "transfer" /\ rows[i].raw_category = <<1055,1077,1088,1077,1082,1072,1079,32,40,1083,1102,1076,1080,1085,1110,41>> (* Переказ (людині) *)

\* the keywords of the salary rule
C8_SalaryKeywords ==
  <<<<1079,1072,1088,1087,1083,1072,1090,1072>> (* зарплата *), <<1079,1087>> (* зп *), <<115,97,108,97,114,121>> (* salary *), <<1072,1074,1072,1085,1089>> (* аванс *), <<1085,1072,1088,1072,1093,1091,1074,1072,1085,1085,1103,32,1079,1087>> (* нарахування зп *), <<1074,1080,1087,1083,1072,1090,1072,32,1079,1087>> (* виплата зп *),
    <<1079,1072,1088,1086,1073,1110,1090,1085,1072,32,1087,1083,1072,1090,1072>> (* заробітна плата *), <<1079,1072,1088,1086,1073,1110,1090,1085,1103,32,1087,1083,1072,1090,1072>> (* заробітня плата *)>>

\* a positive amount, no MCC, a salary keyword in the description
C8_Case(amount, description, mcc) ==
  FPos0(amount) /\ mcc = <<>> /\ anyIn(C8_SalaryKeywords, lower(description))

C8_IsSalary(type, cat) == type = "income" /\ cat = <<1047,1072,1088,1087,1083,1072,1090,1072>> (* Зарплата *)

\* C8 as stated: with a positive amount, no MCC and a salary keyword in the
\* description, both categorizations give the income "Зарплата", whatever
\* else the description holds
C8_SalaryKeywordIsSalary ==
  /\ call.fn \in {"csv_category", "_classify_transaction"} =>
       (C8_Case(call.amount, call.description, call.mcc)
          => C8_IsSalary(call.result.type, call.result.cat))
  /\ \A i \in 1..Len(rows) :
       C8_Case(rows[i].src_amount, rows[i].src_description, rows[i].mcc)
         => C8_IsSalary(rows[i].type, rows[i].raw_category)

\* a keyword of a rule listed before the salary rule is in the description
C8_EarlierRule(description) ==
  \E i \in 1..Len(KEYWORD_RULES) :
    /\ \A j \in 1..i : KEYWORD_RULES[j].cat # <<1047,1072,1088,1087,1083,1072,1090,1072>> (* Зарплата *)
    /\ anyIn(KEYWORD_RULES[i].keywords, lower(description))

\* what else the description may hold for parse_csv to give the salary
C8_CsvClear(description) == ~C8_EarlierRule(description)

\* what else the description may hold for _classify_transaction to give it
C8_PdfClear(description) ==
  /\ ~_is_person_name(description)
  /\ ~anyIn(<<<<1076,1077,1087,1086,1079,1080,1090>> (* депозит *), <<1074,1082,1083,1072,1076>> (* вклад *), <<1085,1072,1082,1086,1087,1080,1095>> (* накопич *), <<1085,1072,32,1073,1072,1085,1082,1091>> (* на банку *), <<1079,1072,1086,1097,1072,1076,1078>> (* заощадж *), <<1089,1082,1072,1088,1073,1085,1080,1095,1082>> (* скарбничк *)>>,
            lower(description))
  /\ \/ anyIn(<<<<1079,1072,1088,1087,1083,1072,1090,1072>> (* зарплата *), <<1079,1087>> (* зп *), <<115,97,108,97,114,121>> (* salary *), <<1072,1074,1072,1085,1089>> (* аванс *)>>, lower(description))
     \/ /\ ~anyIn(<<<<1092,1088,1110,1083,1072,1085,1089>> (* фріланс *), <<102,114,101,101,108,97,110,99,101>> (* freelance *), <<117,112,119,111,114,107>> (* upwork *)>>, lower(description))
        /\ ~C8_EarlierRule(description)

\* C8, amended: with a positive amount, no MCC and a salary keyword in the
\* description, parse_csv gives the income "Зарплата" when no keyword of an
\* earlier rule is in the description, and _classify_transaction gives it
\* when the description is no person's name, holds no transfer-out keyword,
\* and holds one of the classifier's four salary keywords or else neither a
\* freelance keyword nor a keyword of an earlier rule
C8_SalaryKeywordIsSalaryWhenClear ==
  /\ (call.fn = "csv_category" /\ C8_Case(call.amount, call.description, call.mcc)
        /\ C8_CsvClear(call.description))
       => C8_IsSalary(call.result.type, call.result.cat)
  /\ (call.fn = "_classify_transaction" /\ C8_Case(call.amount, call.description, call.mcc)
        /\ C8_PdfClear(call.description))
       => C8_IsSalary(call.result.type, call.result.cat)
  /\ \A i \in 1..Len(rows) :
       (/\ C8_Case(rows[i].src_amount, rows[i].src_description, rows[i].mcc)
        /\ IF doc = "csv" THEN C8_CsvClear(rows[i].src_description)
           ELSE C8_PdfClear(rows[i].src_description))
         => C8_IsSalary(rows[i].type, rows[i].raw_category)

\* the classifier gave the salary to a description that holds a salary
\* keyword and a keyword of an earlier rule
C8_Witness ==
  /\ call.fn = "_classify_transaction"
  /\ C8_Case(call.amount, call.description, call.mcc)
  /\ C8_PdfClear(call.description)
  /\ C8_EarlierRule(call.description)
  /\ C8_IsSalary(call.result.type, call.result.cat)

\* ------------------------------------------------------------------ the routing of parse_pdf

\* the banks' name markers
C9_Markers == <<<<109,111,110,111,98,97,110,107>> (* monobank *), <<1091,1085,1110,1074,1077,1088,1089,1072,1083,32,1073,1072,1085,1082>> (* універсал банк *), <<117,110,105,118,101,114,115,97,108,32,98,97,110,107>> (* universal bank *), <<1072,45,1073,1072,1085,1082>> (* а-банк *), <<1072,1082,1094,1077,1085,1090,45,1073,1072,1085,1082>> (* акцент-банк *)>>

C9_Named(text_lower) == anyIn(C9_Markers, text_lower)

C10_IdOfType(cats, id, tx_type) ==
  \E j \in 1..Len(cats) : cats[j].id = id /\ cats[j].type = tx_type

\* C10: find_category_id returns null or the id of an entry of the catalog
\* of the type asked for, and so the category_id of every row emitted is null
\* or the id of an entry of the catalog of the row's type
C10_CategoryIdOfTheType ==
  /\ call.fn = "find_category_id" =>
       \/ call.result = NoId
       \/ C10_IdOfType(call.categories, call.result, call.tx_type)
  /\ \A i \in 1..Len(rows) :
       \/ rows[i].category_id = NoId
       \/ C10_IdOfType(categories, rows[i].category_id, rows[i].type)

\* find_category_id found an entry although an entry of another type, before
\* it in the catalog, has the name asked for
C10_Witness ==
  /\ call.fn = "find_category_id"
  /\ call.result # NoId
  /\ \E j \in 1..Len(call.categories) :
       /\ call.categories[j].type # call.tx_type
       /\ strip(lower(call.categories[j].name)) = strip(lower(call.name))
       /\ call.categories[j].id # call.result

\* ------------------------------------------------------------------ the classification as a function

\* what a row was classified as
C11_Triple(r) == <<r.raw_category, r.type, r.ignore_in_stats>>

\* what the pipeline of the document classifies an extracted row as
C11_Classified(amount, description, mcc) ==
  IF doc = "csv" THEN csv_category(amount, description, mcc)
  ELSE _classify_transaction(amount, description, mcc)

C12_In(headers, sub) == \E i \in 1..Len(headers) : IsIn(sub, strip(lower(headers[i])))

\* sub is one of the lower-cased, stripped headers
C12_Is(headers, sub) == \E i \in 1..Len(headers) : strip(lower(headers[i])) = sub

\* the signature rules in their order: the bank and whether the headers
\* satisfy the rule
C12_Rules(hs) == <<
  <<MONO, C12_Is(hs, <<109,99,99>> (* mcc *)) /\ C12_In(hs, <<1076,1077,1090,1072,1083,1110,32,1086,1087,1077,1088,1072,1094,1110,1111>> (* деталі операції *))>>,
  <<MONO, C12_In(hs, <<1076,1072,1090,1072,32,1110,32,1095,1072,1089,32,1086,1087,1077,1088,1072,1094,1110,1111>> (* дата і час операції *))>>,
  <<PRIVAT, C12_In(hs, <<1076,1072,1090,1072,32,1110,32,1095,1072,1089>> (* дата і час *)) /\ C12_In(hs, <<1086,1087,1080,1089,32,1086,1087,1077,1088,1072,1094,1110,1111>> (* опис операції *))>>,
  <<PRIVAT, C12_In(hs, <<1076,1077,1090,1072,1083,1110,32,1086,1087,1077,1088,1072,1094,1110,1111>> (* деталі операції *)) /\ C12_Is(hs, <<1082,1072,1090,1077,1075,1086,1088,1110,1103>> (* категорія *))>>,
  <<OSCHADBANK, C12_In(hs, <<1087,1088,1080,1079,1085,1072,1095,1077,1085,1085,1103,32,1087,1083,1072,1090,1077,1078,1091>> (* призначення платежу *))
                /\ (C12_In(hs, <<1076,1077,1073,1077,1090>> (* дебет *)) \/ C12_In(hs, <<1082,1088,1077,1076,1080,1090>> (* кредит *)))>>,
  <<OSCHADBANK, C12_In(hs, <<1087,1088,1080,1079,1085,1072,1095,1077,1085,1085,1103,32,1087,1083,1072,1090,1077,1078,1091>> (* призначення платежу *))>>,
  <<RAIFFEISEN, C12_In(hs, <<111,112,101,114,97,116,105,111,110,32,100,97,116,101>> (* operation date *))>>,
  <<RAIFFEISEN, (C12_In(hs, <<100,111,99,117,109,101,110,116,32,97,109,111,117,110,116>> (* document amount *)) \/ C12_In(hs, <<1086,1087,1077,1088,1072,1094,1110,1103>> (* операція *)))
                /\ C12_Is(hs, <<97,109,111,117,110,116>> (* amount *))>>,
  <<PUMB, C12_In(hs, <<1076,1072,1090,1072,32,1076,1086,1082,1091,1084,1077,1085,1090,1091>> (* дата документу *)) /\ C12_In(hs, <<1087,1088,1080,1079,1085,1072,1095,1077,1085,1085,1103>> (* призначення *))>>,
  <<PUMB, C12_In(hs, <<1087,1091,1084,1073>> (* пумб *)) \/ C12_In(hs, <<112,117,109,98>> (* pumb *))>>,
  <<ABANK, C12_In(hs, <<1087,1088,1080,1093,1110,1076>> (* прихід *)) \/ C12_In(hs, <<1074,1080,1090,1088,1072,1090,1080>> (* витрати *))>>,
  <<ABANK, C12_In(hs, <<97,98,97,110,107>> (* abank *)) \/ C12_In(hs, <<1072,45,1073,1072,1085,1082>> (* а-банк *))>>
>>

\* the rules of the list that are satisfied
C12_Satisfied(rules) == {i \in 1..Len(rules) : rules[i][2]}

\* the bank of the first rule satisfied, generic when none is
C12_Pick(rules, satisfied) == IF satisfied = {} THEN GENERIC ELSE rules[Min(satisfied)][1]

C12_First(rules) == C12_Pick(rules, C12_Satisfied(rules))

\* a rule of the bank b is satisfied
C12_Meets(rules, b) == \E i \in 1..Len(rules) : rules[i][1] = b /\ rules[i][2]

C12_Detected(result, headers, rules) ==
  /\ result \in {MONO, PRIVAT, OSCHADBANK, RAIFFEISEN, PUMB, ABANK, GENERIC}
  /\ result = C12_First(rules)
  /\ headers = <<<<1044,1072,1090,1072,32,1110,32,1095,1072,1089,32,1086,1087,1077,1088,1072,1094,1110,1111>> (* Дата і час операції *), <<77,67,67>> (* MCC *), <<1057,1091,1084,1072>> (* Сума *)>> => result = MONO
  /\ C12_Meets(rules, MONO) => result = MONO

\* C12: detect_bank returns one of the seven identifiers: the bank of the
\* first signature rule that the headers satisfy, generic when they satisfy
\* none; the headers "Дата і час операції", "MCC", "Сума" give monobank, and
\* so do headers that satisfy a Monobank rule, whatever other rule they
\* satisfy; parse_csv dispatches a file with a header row on the same bank
C12_DetectBankIsFirstRule ==
  /\ call.fn = "detect_bank" => C12_Detected(call.result, call.headers, C12_Rules(call.headers))
  /\ (doc = "csv" /\ pc = "csv_rows" /\ consumed = 0) =>
       C12_Detected(bank, header, C12_Rules(header))

\* detect_bank returned monobank for headers that satisfy a rule of
\* PrivatBank too
C12_Witness ==
  /\ call.fn = "detect_bank"
  /\ call.result = MONO
  /\ C12_Meets(C12_Rules(call.headers), PRIVAT)

\* C13: the headers of every column layout that the docstring of a bank's
\* row extractor names are detected as that bank, by detect_bank called alone
\* and by parse_csv, which then reads the rows with that extractor
C13_DocumentedLayoutsAreDetected ==
  /\ call.fn = "detect_bank" =>
       \A l \in Layouts : call.headers = l[1] => call.result = l[2]
  /\ (doc = "csv" /\ pc # "csv_open") =>
       \A l \in Layouts : header = l[1] => bank = l[2]

\* ------------------------------------------------------------------ the two amount columns

\* the cell holds a number that is not zero
C14_Nonzero(raw) == _parse_amount(raw).k = "num" /\ _parse_amount(raw).m # 0

\* C14: a row extractor of a two-column bank gives a row with a debit cell
\* that is not zero the negative amount of the debit's magnitude (the debit
\* 250.00 beside an empty credit gives -250.00), a row with a credit cell that
\* is not zero and no such debit the positive amount of the credit's
\* magnitude, and rejects the row exactly when neither cell holds a number
\* that is not zero
C14_TwoColumnAmount ==
  call.fn = "parse_row" =>
    /\ C14_Nonzero(call.debit) =>
         /\ call.result.k = "row"
         /\ FNeg0(call.result.amount)
         /\ FEq(fabs(call.result.amount), fabs(_parse_amount(call.debit)))
    /\ (~C14_Nonzero(call.debit) /\ C14_Nonzero(call.credit)) =>
         /\ call.result.k = "row"
         /\ FPos0(call.result.amount)
         /\ FEq(call.result.amount, fabs(_parse_amount(call.credit)))
    /\ call.result.k = "none" <=> (~C14_Nonzero(call.debit) /\ ~C14_Nonzero(call.credit))
    /\ (call.debit = <<50,53,48,46,48,48>> (* 250.00 *) /\ call.credit = <<>>) =>
         FEq(call.result.amount, Num(TRUE, 250000))

\* ------------------------------------------------------------------ the sign correction

\* the type that categorize returned agrees with the sign of the amount
C15_Agrees(amount, c) ==
  \/ c.type = "transfer"
  \/ c.type = "expense" /\ FNeg0(amount)
  \/ c.type = "income" /\ FPos0(amount)

\* what parse_csv gives equals what categorize returned when the two agree,
\* and correcting what parse_csv gives once more changes nothing
C15_NoOp(amount, description, result, c) ==
  /\ C15_Agrees(amount, c) => result = c
  /\ sign_correct(FNeg0(amount), result, description) = result

\* C15: the sign correction of parse_csv leaves what categorize returned as
\* it is (type, category and ignore flag) when the type agrees with the sign
\* of the amount (an expense of a negative amount, an income of a positive
\* one, a transfer of either), and it changes nothing when applied to what
\* it has corrected
C15_SignCorrectionIsNoOp ==
  /\ call.fn = "csv_category" =>
       C15_NoOp(call.amount, call.description, call.result,
                categorize(call.description, call.mcc))
  /\ doc = "csv" =>
       \A i \in 1..Len(rows) :
         C15_NoOp(rows[i].src_amount, rows[i].src_description,
                  [cat |-> rows[i].raw_category, type |-> rows[i].type,
                   ignore |-> rows[i].ignore_in_stats],
                  categorize(rows[i].src_description, rows[i].mcc))

\* parse_csv categorized a credit that categorize typed a transfer of a
\* category of its own
C15_Witness ==
  /\ call.fn = "csv_category"
  /\ FPos0(call.amount)
  /\ call.result.type = "transfer"
  /\ call.result.cat # <<1055,1077,1088,1077,1082,1072,1079,32,40,1110,1085,1096,1077,41>> (* Переказ (інше) *)
  /\ call.result = categorize(call.description, call.mcc)

\* ------------------------------------------------------------------ the amount cells

\* the text without its plain and non-breaking spaces
C16_Unspaced(raw) == SelectSeq(raw, LAMBDA c : c \notin {32, 160})

\* the comma is the decimal separator
C16_DecimalComma(s) == count(s, 44) = 1 /\ count(s, 46) = 0

\* what the rule of the commas makes of the unspaced text s
C16_Rule(result, s) ==
  /\ C16_DecimalComma(s) => result = float(replace(s, 44, 46))
  /\ ~C16_DecimalComma(s) => result = float(SelectSeq(s, LAMBDA c : c # 44))

C16_Example(raw, result, expected) == raw = expected[1] => result = expected[2]

C17_EmptyResults ==
  doc = "csv" =>
    /\ (header = <<>> /\ pc # "csv_open") =>
         /\ pc = "done" /\ error = "none"
         /\ rows = <<>> /\ skipped = 0 /\ bank = GENERIC
    /\ (header # <<>> /\ pc # "csv_open" /\ rows = <<>>) =>
         /\ pc # "raised" /\ error = "none"
         /\ skipped = consumed
         /\ bank = detect_bank(header)

\* the step reads the data row with these cells: the row is counted in
\* skipped when its extractor rejects it or its amount is below the
\* threshold, and appended to the rows emitted otherwise
C18_Reads(parsed) ==
  IF parsed.k = "none" \/ (parsed.k = "row" /\ FBelowMin(fabs(parsed.amount)))
  THEN rows' = rows /\ skipped' = skipped + 1
  ELSE /\ Len(rows') = Len(rows) + 1
       /\ SubSeq(rows', 1, Len(rows)) = rows
       /\ rows'[Len(rows')].src_amount = parsed.amount
       /\ skipped' = skipped

\* C18: every data row that parse_csv reads is either appended to the rows
\* emitted, after those of the rows before it, or counted in skipped, once:
\* it is counted exactly when its extractor rejects it or its amount is below
\* 0.01; so the rows emitted and skipped add up to the data rows read
C18_EveryRowEmittedOrSkipped ==
  [][(doc = "csv" /\ consumed' # consumed) =>
       /\ consumed' = consumed + 1
       /\ \E cells \in DataRows[header] : C18_Reads(parse_row(bank, DictRow(header, cells)))
       /\ Len(rows') + skipped' = consumed']_vars

\* C19: in parse_csv no date cell makes a row be skipped or the call raise:
\* a row whose amount resolves is emitted with the date of its cell or, when
\* the cell is empty or no date, with the ingestion time, never with null
C19_DateNeverFails ==
  doc = "csv" =>
    /\ error # "OverflowError"
    /\ \A i \in 1..Len(rows) : rows[i].transaction_date.k \in {"date", "ts", "now"}

\* ------------------------------------------------------------------ the cascade of categorize

\* the rules of KEYWORD_RULES with a keyword that is in the text
C20_Matching(text) ==
  {i \in 1..Len(KEYWORD_RULES) :
     \E k \in 1..Len(KEYWORD_RULES[i].keywords) : IsIn(KEYWORD_RULES[i].keywords[k], text)}

\* the stripped MCC is in the table
C20_Known(mcc) == mcc # <<>> /\ strip(mcc) \in DOMAIN MCC_TO_CATEGORY

C20_Cascade(result, mcc, matching) ==
  IF C20_Known(mcc)
  THEN /\ result.cat = MCC_TO_CATEGORY[strip(mcc)].cat
       /\ result.type = MCC_TO_CATEGORY[strip(mcc)].type
       /\ ~result.ignore
  ELSE IF matching # {}
  THEN /\ result.cat = KEYWORD_RULES[Min(matching)].cat
       /\ result.type = KEYWORD_RULES[Min(matching)].type
  ELSE result = [cat |-> <<1030,1085,1096,1077>> (* Інше *), type |-> "expense", ignore |-> FALSE]

\* C20: categorize returns the entry of MCC_TO_CATEGORY of the stripped MCC,
\* not ignored, when the table has it, whatever the description holds;
\* otherwise the category and the type of the first rule of KEYWORD_RULES of
\* which a keyword is in the lower-cased description; otherwise "Інше", an
\* expense, not ignored
C20_CategorizeIsTheCascade ==
  call.fn = "categorize" =>
    C20_Cascade(call.result, call.mcc, C20_Matching(lower(call.description)))

\* categorize returned the entry of the MCC, not ignored, for a description
\* that holds a keyword of a rule and an ignore marker
C20_Witness ==
  /\ call.fn = "categorize"
  /\ C20_Known(call.mcc)
  /\ C20_Matching(lower(call.description)) # {}
  /\ IsIn(<<1087,1086,1074,1077,1088,1085,1077,1085,1085,1103,32,1073,1086,1088,1075,1091>> (* повернення боргу *), lower(call.description))
  /\ KEYWORD_RULES[Min(C20_Matching(lower(call.description)))].cat # call.result.cat
  /\ ~call.result.ignore

\* ------------------------------------------------------------------ the ignore flag of categorize

\* the lower-cased description holds one of the markers
C21_Marked(text) ==
  IsIn(<<1087,1086,1074,1077,1088,1085,1077,1085,1085,1103,32,1073,1086,1088,1075,1091>> (* повернення боргу *), text) \/ IsIn(<<1087,1086,1076,1110,1083>> (* поділ *), text) \/ IsIn(<<115,112,108,105,116,32,99,104,101,99,107>> (* split check *), text)

C21_Flag(result, mcc, text, matching) ==
  /\ result.ignore <=> (~C20_Known(mcc) /\ matching # {} /\ C21_Marked(text))
  /\ (~C20_Known(mcc) /\ matching # {}) =>
       /\ result.cat = KEYWORD_RULES[Min(matching)].cat
       /\ result.type = KEYWORD_RULES[Min(matching)].type

\* C21: categorize sets the ignore flag exactly when the MCC is not in the
\* MCC table, a keyword rule matches and the lower-cased description holds a
\* marker ("повернення боргу", "поділ", "split check"), whichever rule
\* matched; the category and the type stay those of the first rule matched;
\* a result of the MCC layer or the fallback is never ignored
C21_IgnoreFlag ==
  call.fn = "categorize" =>
    C21_Flag(call.result, call.mcc, lower(call.description),
             C20_Matching(lower(call.description)))

\* categorize returned the category of a matched rule, ignored
C21_Witness ==
  /\ call.fn = "categorize"
  /\ call.result.ignore
  /\ call.result.cat # <<1030,1085,1096,1077>> (* Інше *)
  /\ IsIn(<<115,112,108,105,116,32,99,104,101,99,107>> (* split check *), lower(call.description))

\* ------------------------------------------------------------------ the stages of find_category_id

\* "/" or white space
C22_Separator(c) == c = 47 \/ isspace(c)

\* the tokens of the text: its longest runs without a separator
C22_Tokens(s) ==
  {SubSeq(s, a, b) : a \in 1..Len(s), b \in 1..Len(s)} \cap
  {SubSeq(s, a, b) : <<a, b>> \in
     {ab \in (1..Len(s)) \X (1..Len(s)) :
        /\ ab[1] <= ab[2]
        /\ \A i \in ab[1]..ab[2] : ~C22_Separator(s[i])
        /\ ab[1] = 1 \/ C22_Separator(s[ab[1] - 1])
        /\ ab[2] = Len(s) \/ C22_Separator(s[ab[2] + 1])}}

\* the tokens that the query shares with the name of the entry
C22_Shared(q, entry) == Cardinality(C22_Tokens(q) \cap C22_Tokens(lower(entry.name)))

\* the stages on the entries of the type: those of the exact name, those of
\* a name that holds the query or is held by it, and the most tokens shared
C22_Staged(result, cats, q, of_type, exact, held, most) ==
  IF exact # {} THEN result = cats[Min(exact)].id
  ELSE IF held # {} THEN result = cats[Min(held)].id
  ELSE IF most > 0
  THEN result = cats[Min({i \in of_type : C22_Shared(q, cats[i]) = most})].id
  ELSE result = NoId

C22_Stages(result, cats, q, of_type) ==
  C22_Staged(result, cats, q, of_type,
             {i \in of_type : strip(lower(cats[i].name)) = q},
             {i \in of_type : \/ IsIn(q, strip(lower(cats[i].name)))
                              \/ IsIn(strip(lower(cats[i].name)), q)},
             Max({0} \cup {C22_Shared(q, cats[i]) : i \in of_type}))

\* C22: find_category_id returns, of the entries of the catalog of the type
\* asked for: the first whose name is the query, whatever the case; else the
\* first whose name holds the query or is held by it; else the first of those
\* that share the most tokens (runs between white space and "/") with the
\* query, when they share one at least; else null
C22_FindCategoryIdStages ==
  call.fn = "find_category_id" =>
    C22_Stages(call.result, call.categories, strip(lower(call.name)),
               {i \in 1..Len(call.categories) : call.categories[i].type = call.tx_type})

\* find_category_id returned the first of two entries that share two tokens
\* with the query, after an entry that shares one
C22_Witness ==
  /\ call.fn = "find_category_id"
  /\ call.categories = CAT_STAGES
  /\ call.name = <<1055,1088,1086,1076,1091,1082,1090,1080,32,47,32,1050,1072,1092,1077>> (* Продукти / Кафе *)
  /\ call.tx_type = "income"
  /\ call.result = "s4"

\* ------------------------------------------------------------------ the credits typed expenses

\* the lower-cased description holds an income keyword of the correction
C23_IncomeKeyword(text) ==
  \/ IsIn(<<1079,1072,1088,1087,1083,1072,1090,1072>> (* зарплата *), text) \/ IsIn(<<1079,1087>> (* зп *), text) \/ IsIn(<<115,97,108,97,114,121>> (* salary *), text)
  \/ IsIn(<<1072,1074,1072,1085,1089>> (* аванс *), text) \/ IsIn(<<1085,1072,1088,1072,1093,1091,1074,1072,1085,1085,1103,32,1079,1087>> (* нарахування зп *), text) \/ IsIn(<<1074,1110,1076,32,1092,1110,1079,1080,1095,1085,1086,1111>> (* від фізичної *), text)

\* what parse_csv makes of a positive amount that categorize typed an expense
C23_Corrected(amount, text, c, result) ==
  (FPos0(amount) /\ c.type = "expense") =>
    /\ result.ignore = c.ignore
    /\ IF C23_IncomeKeyword(text)
       THEN result.type = "income" /\ result.cat = <<1030,1085,1096,1080,1081,32,1076,1086,1093,1110,1076>> (* Інший дохід *)
       ELSE result.type = "transfer" /\ result.cat = <<1055,1077,1088,1077,1082,1072,1079,32,40,1110,1085,1096,1077,41>> (* Переказ (інше) *)

\* C23: parse_csv emits a row of a positive amount that categorize typed an
\* expense as the income "Інший дохід" when its lower-cased description holds
\* an income keyword, and as the transfer "Переказ (інше)" otherwise, with
\* the ignore flag that categorize returned
C23_CreditTypedExpense ==
  /\ call.fn = "csv_category" =>
       C23_Corrected(call.amount, lower(call.description),
                     categorize(call.description, call.mcc), call.result)
  /\ doc = "csv" =>
       \A i \in 1..Len(rows) :
         C23_Corrected(rows[i].src_amount, lower(rows[i].src_description),
                       categorize(rows[i].src_description, rows[i].mcc),
                       [cat |-> rows[i].raw_category, type |-> rows[i].type,
                        ignore |-> rows[i].ignore_in_stats])

\* parse_csv made an ignored transfer of a credit that categorize typed an
\* ignored expense
C23_Witness ==
  /\ call.fn = "csv_category"
  /\ FPos0(call.amount)
  /\ categorize(call.description, call.mcc).type = "expense"
  /\ call.result = [cat |-> <<1055,1077,1088,1077,1082,1072,1079,32,40,1110,1085,1096,1077,41>> (* Переказ (інше) *), type |-> "transfer", ignore |-> TRUE]

\* ------------------------------------------------------------------ the flag column

\* the flag cell says debit, says credit
C24_Debit(flag) == flag # <<>> /\ upper_cp(flag[1]) = 68

C24_Credit(flag) == flag # <<>> /\ upper_cp(flag[1]) = 67

\* C24: the row extractor of Raiffeisen gives a row flagged a debit the
\* amount -|x| and a row flagged a credit the amount +|x|, whatever sign the
\* amount cell x has, in the layout that its docstring names (the flag under
\* "DEBIT/CREDIT FLAG") as under the other names of the flag column
C24_FlagDecidesSign ==
  call.fn = "parse_row_raiffeisen" =>
    /\ C24_Debit(call.flag) =>
         call.result.amount = fneg(fabs(_parse_amount(call.amount)))
    /\ C24_Credit(call.flag) =>
         call.result.amount = fabs(_parse_amount(call.amount))


\* ------------------------------------------------------------------ the tables of a page

\* a table that the bank's structural validation turns down
C25_FailsValidation(b, tbl) ==
  /\ tbl # <<>>
  /\ IF b = ABANK THEN ~ _is_abank_table(tbl) ELSE ~ _is_monobank_table(tbl)

\* the ruling lines of the page gave a table that fails validation
C25_HasFailingTable(b, page) ==
  \E i \in 1..Len(page.lines) : C25_FailsValidation(b, page.lines[i])

\* what the page adds when the failing table is ignored and the tables of the
\* text alignment are read as well
C25_WithTextStrategy(b, page) ==
  tables_rows(b, page.lines \o page.text, NoRows)

C25_Added(got) ==
  /\ raw_rows' = raw_rows \o got.rows
  /\ skipped' = skipped + got.skipped

\* C25: on a page where a table found by the ruling lines fails structural
\* validation, the table is ignored and the text-alignment strategy is tried
\* for that page: the turn of the loop adds the rows of the tables that the
\* text alignment gives.
C25_TextStrategyAfterFailedTable ==
  [][(pc = "pdf_pages" /\ consumed' = consumed + 1 /\ C25_HasFailingTable(bank, this_page'))
       => C25_Added(C25_WithTextStrategy(bank, this_page'))]_vars

\* ------------------------------------------------------------------ the count of the PDF rows

\* the tables of a page that pass the bank's validation
C26_Validated(b, tables) ==
  {i \in 1..Len(tables) :
     /\ tables[i] # <<>>
     /\ IF b = ABANK THEN _is_abank_table(tables[i]) ELSE _is_monobank_table(tables[i])}

\* the rows below the header row of the tables that pass validation
C26_NonHeaderRows(b, tables) ==
  Cardinality({ij \in (1..Len(tables)) \X (1..MaxTableLen) :
                 ij[1] \in C26_Validated(b, tables) /\ 2 <= ij[2] /\ ij[2] <= Len(tables[ij[1]])})

\* a turn of the loop over the pages accounts for every such row of the page
C26_PageCounted ==
  (pc = "pdf_pages" /\ consumed' = consumed + 1) =>
    Len(raw_rows') + skipped'
      = Len(raw_rows) + skipped + C26_NonHeaderRows(bank, page_tables(this_page'))

\* the return accounts for every extracted row, also when there is none
C26_ReturnCounted ==
  (pc = "pdf_pages" /\ pc' = "done") =>
    Len(rows') + skipped' = Len(raw_rows) + skipped

\* C26: for every PDF parse that returns, the emitted rows plus skipped equal
\* the non-header rows of the tables that passed validation, over all pages:
\* every page adds exactly its such rows to the extracted rows and skipped
\* (tables that fail validation add nothing), and the return turns every
\* extracted row into an emitted row or one more skipped, also when no row
\* was extracted.
C26_RowsPlusSkippedIsRowCount ==
  [][C26_PageCounted /\ C26_ReturnCounted]_vars

\* a parse of two pages has returned rows and a skip count, one extracted row
\* being below the threshold
C26_Witness ==
  /\ doc = "pdf"
  /\ pc = "done"
  /\ consumed = 2
  /\ rows # <<>>
  /\ Len(rows) < Len(raw_rows)
  /\ Len(rows) + skipped >= 3

\* ------------------------------------------------------------------ the date cell of a PDF row

\* C27: a table row of a PDF statement is extracted only if its date cell
\* parses to a date; no extracted row carries a date substituted for a cell
\* that does not parse.
C27_NoSubstitutedDate ==
  doc = "pdf" => \A i \in 1..Len(raw_rows) : raw_rows[i].date.k = "date"

\* ------------------------------------------------------------------ the always-transfer codes

\* the result the sentence gives an always-transfer code
C28_Debit(result, desc_lower) ==
  /\ result.type = "transfer"
  /\ result.cat = (IF anyIn(TRANSFER_OUT_KEYWORDS, desc_lower)
                   THEN <<1030,1085,1074,1077,1089,1090,1080,1094,1110,1111,47,1057,1082,1072,1088,1073,1085,1080,1095,1082,1072>> (* Інвестиції/Скарбничка *) ELSE <<1055,1077,1088,1077,1082,1072,1079,32,40,1110,1085,1096,1077,41>> (* Переказ (інше) *))

C28_Credit(result, desc_lower) ==
  result.type = (IF anyIn(INCOME_KEYWORDS, desc_lower) THEN "income" ELSE "transfer")

C28_Rule(c) ==
  /\ (c.mcc \in ALWAYS_TRANSFER_MCC /\ FNeg0(c.amount)) => C28_Debit(c.result, lower(c.description))
  /\ (c.mcc \in ALWAYS_TRANSFER_MCC /\ FPos0(c.amount)) => C28_Credit(c.result, lower(c.description))
  /\ (c.mcc = <<52,56,50,57>> (* 4829 *) /\ FPos0(c.amount)) => c.result.type = "income"

\* C28: for a description that is no person name, _classify_transaction gives
\* an always-transfer code with a negative amount a transfer (the savings
\* label with a savings keyword, the general label otherwise) and with a
\* positive amount an income with an income keyword and a transfer otherwise;
\* and it gives a positive amount with the code 4829 an income.
C28_AlwaysTransferBranch ==
  (call.fn = "_classify_transaction" /\ ~ _is_person_name(call.description)) => C28_Rule(call)

\* the first two parts of the sentence alone
C28_WithoutCode4829 ==
  (call.fn = "_classify_transaction" /\ ~ _is_person_name(call.description)
     /\ call.mcc \in ALWAYS_TRANSFER_MCC) => C28_Rule(call)

\* ------------------------------------------------------------------ the type and the category of a row

\* the names that the rule tables pair with the type income
C29_IncomeVocabulary == {<<1047,1072,1088,1087,1083,1072,1090,1072>> (* Зарплата *), <<1060,1088,1110,1083,1072,1085,1089>> (* Фріланс *), <<1030,1085,1096,1080,1081,32,1076,1086,1093,1110,1076>> (* Інший дохід *), <<1055,1086,1076,1072,1088,1091,1085,1086,1082>> (* Подарунок *)}

C29_Paired(row) ==
  /\ row.type = "income" => row.raw_category \in C29_IncomeVocabulary
  /\ row.type = "expense" => row.raw_category \notin C29_IncomeVocabulary

\* C29: in every row emitted by either pipeline the type is the one that the
\* rule tables pair with the row's raw_category: an income row carries a
\* category of the income vocabulary and an expense row never carries one.
C29_TypeMatchesCategory ==
  \A i \in 1..Len(rows) : C29_Paired(rows[i])

\* the same of the rows of the PDF pipeline alone
C29_PdfTypeMatchesCategory ==
  doc = "pdf" => C29_TypeMatchesCategory

\* ---------------------------------------------------------------------------
\* Once a cancel has returned nothing is or will be inserted: no call was made
\* and no callback stands before the call.
C30_Cancelled ==
  \E t \in Callback : at(t, "cancelled")

C30_NothingAfterCancel ==
  C30_Cancelled =>
    /\ inserted = 0
    /\ \A t \in Callback : ~ at(t, "bulk_insert")

\* C30: for one previewed import bulk_insert_transactions is called at most
\* once, however the confirm and cancel callbacks of the user interleave.
C30_InsertedAtMostOnce ==
  doc = "import" => (inserted <= 1 /\ C30_NothingAfterCancel)

\* two presses of the save button, both handlers past the filter and past
\* get_data before either clears the row: the rows are inserted twice
C30_InsertedTwice ==
  /\ doc = "import"
  /\ inserted = 2
  /\ \A t \in Callback : callbacks[t].data = "csv_confirm_yes" /\ at(t, "saved")
====
